---- MODULE Spec2Model ----
(***************************************************************************)
(* rawji: remote control of a Fujifilm camera's RAW conversion over USB    *)
(* PTP.  The module models the command executor and session manager of     *)
(* src/src/rawji/fuji_usb.py (class FujiCamera) and the workflow of        *)
(* src/src/rawji/__main__.py (main) as a state machine.  The camera and    *)
(* the USB stack are the environment: every bulk write and every container *)
(* read has a nondeterministic outcome drawn from a small set.             *)
(***************************************************************************)
EXTENDS Integers, Sequences, FiniteSets, TLC

(***************************************************************************)
(* Bounds of the model.                                                    *)
(***************************************************************************)
\* timeout argument of wait_for_result, in seconds of the modelled clock
\* (main passes 30; the loop is the same for every positive value)
MaxTimeout == 2
\* longest time, in seconds, one GetObjectHandles exchange may take
MaxCmdDelay == 1
\* the size of one bulk transfer (max_chunk_size, and the size of one
\* ep_in.read): 512 * 1024 bytes in the source, a few bytes here; at least
\* the 12 bytes of a header, as in the source
max_chunk_size == 16
\* the number of transfers of that size the receive limit allows: 200 in the
\* source (100 * 1024 * 1024 bytes), fewer here; more than the 11 transfers
\* of the largest container sent
MaxTransfers == 20

(***************************************************************************)
(* Protocol constants (fuji_enums.py, fuji_usb.py).                        *)
(***************************************************************************)
COMMAND == 1
DATA == 2
RESPONSE == 3
EVENT == 4

\* PTPOperation
OpenSession == 4098          \* 0x1002
CloseSession == 4099         \* 0x1003
GetObjectHandles == 4103     \* 0x1007
GetObject == 4105            \* 0x1009
DeleteObject == 4107         \* 0x100B
GetDevicePropValue == 4117   \* 0x1015
SetDevicePropValue == 4118   \* 0x1016
FUJI_SendObjectInfo == 36876 \* 0x900C
FUJI_SendObject2 == 36877    \* 0x900D

\* PTPResponseCode
OK == 8193                   \* 0x2001
GeneralError == 8194         \* 0x2002
SessionAlreadyOpen == 8222   \* 0x201E

PTP_DPC_FUJI_RawConvProfile == 53637      \* 0xD185
\* mutant: the trigger is written to the profile property
TriggerPropertyMixedUp == PTP_DPC_FUJI_RawConvProfile

PTP_DPC_FUJI_StartRawConversion == 53635  \* 0xD183

session_id == 1

\* 0xFFFFFFFF, the storage id of GetObjectHandles, as a 32-bit word
\* (two's complement)
ALL_STORAGE == -1

(***************************************************************************)
(* Bytes.                                                                  *)
(***************************************************************************)
\* struct.pack('<B' / '<H' / '<I', v)
packB(v) == <<v % 256>>
packH(v) == <<v % 256, (v \div 256) % 256>>
packI(v) == <<v % 256, (v \div 256) % 256, (v \div 65536) % 256, (v \div 16777216) % 256>>

\* struct.unpack('<I', b)[0] for a 4-byte string b.  A 32-bit word w is
\* written as the integer of the same bit pattern in -2^31 .. 2^31 - 1
\* (w - 2^32 when w >= 2^31), so that packI and unpackI are the two
\* directions of one encoding of all 2^32 words.
unpackI(b) ==
  b[1] + 256 * b[2] + 65536 * b[3]
  + 16777216 * (IF b[4] >= 128 THEN b[4] - 256 ELSE b[4])

\* struct.unpack('<H', b)[0] for a 2-byte string b
unpackH(b) == b[1] + 256 * b[2]

\* n < w for a length n and an unsigned 32-bit word w
LessThanWord(n, w) == w < 0 \/ n < w

\* Python slice b[lo:hi] (0-based, clipped to the string)
Slice(b, lo, hi) ==
  LET h == IF hi < Len(b) THEN hi ELSE Len(b)
  IN  IF lo >= h THEN <<>> ELSE [i \in 1..(h - lo) |-> b[lo + i]]

(***************************************************************************)
(* PTPContainer, at the level of its fields.                               *)
(***************************************************************************)
PTPContainer(container_type, code, transaction_id, params, data) ==
  [type |-> container_type, code |-> code, transaction_id |-> transaction_id,
   params |-> params, data |-> data]

NoContainer == PTPContainer(0, 0, 0, <<>>, <<>>)

\* PTPContainer.pack: the bytes, or the exception struct.pack raises for a
\* type or code that does not fit 16 bits
pack(c) ==
  LET RECURSIVE params_bytes(_)
      params_bytes(ps) == IF ps = <<>> THEN <<>>
                          ELSE packI(Head(ps)) \o params_bytes(Tail(ps))
      pb == params_bytes(Slice(c.params, 0, 5))
      total_length == 12 + Len(pb) + Len(c.data)
  IN  IF c.type \notin 0..65535 \/ c.code \notin 0..65535
        THEN [exc |-> "struct.error", bytes |-> <<>>]
        ELSE [exc |-> "none",
              bytes |-> packI(total_length) \o packH(c.type) \o packH(c.code)
                        \o packI(c.transaction_id) \o pb \o c.data]

\* PTPContainer.unpack, the loop that reads a Response's parameters
RECURSIVE unpack_params(_, _, _)
unpack_params(params_data, params, most) ==
  IF Len(params_data) >= 4 /\ Len(params) < most
    THEN unpack_params(Slice(params_data, 4, Len(params_data)),
                       Append(params, unpackI(Slice(params_data, 0, 4))), most)
    ELSE params

\* mutant: a Response's parameters are read up to four
unpack_four_params(data) ==
  IF Len(data) < 12 THEN [exc |-> "ValueError", c |-> NoContainer]
  ELSE LET container_type == unpackH(Slice(data, 4, 6))
           code == unpackH(Slice(data, 6, 8))
           trans_id == unpackI(Slice(data, 8, 12))
           params_data == Slice(data, 12, Len(data))
       IN  [exc |-> "none",
            c |-> IF container_type = DATA
                    THEN PTPContainer(container_type, code, trans_id, <<>>, params_data)
                  ELSE IF container_type = RESPONSE
                    THEN PTPContainer(container_type, code, trans_id,
                                      unpack_params(params_data, <<>>, 4), <<>>)
                  ELSE PTPContainer(container_type, code, trans_id, <<>>, <<>>)]

\* mutant: a short frame is read as if the missing bytes were zero
unpack_short_as_zeros(data) ==
  LET padded == data \o [i \in 1..(12 - Len(data)) |-> 0]
      container_type == unpackH(Slice(padded, 4, 6))
      code == unpackH(Slice(padded, 6, 8))
      trans_id == unpackI(Slice(padded, 8, 12))
      params_data == Slice(padded, 12, Len(padded))
  IN  [exc |-> "none",
       c |-> IF container_type = DATA
               THEN PTPContainer(container_type, code, trans_id, <<>>, params_data)
             ELSE IF container_type = RESPONSE
               THEN PTPContainer(container_type, code, trans_id,
                                 unpack_params(params_data, <<>>, 5), <<>>)
             ELSE PTPContainer(container_type, code, trans_id, <<>>, <<>>)]

\* mutant: what the parameter loop of a Response leaves over becomes payload
unpack_leftover_as_payload(data) ==
  IF Len(data) < 12 THEN [exc |-> "ValueError", c |-> NoContainer]
  ELSE LET container_type == unpackH(Slice(data, 4, 6))
           code == unpackH(Slice(data, 6, 8))
           trans_id == unpackI(Slice(data, 8, 12))
           params_data == Slice(data, 12, Len(data))
           params == unpack_params(params_data, <<>>, 5)
       IN  [exc |-> "none",
            c |-> IF container_type = DATA
                    THEN PTPContainer(container_type, code, trans_id, <<>>, params_data)
                  ELSE IF container_type = RESPONSE
                    THEN PTPContainer(container_type, code, trans_id, params,
                                      Slice(params_data, 4 * Len(params), Len(params_data)))
                  ELSE PTPContainer(container_type, code, trans_id, <<>>, <<>>)]

\* PTPContainer.unpack: the container, or the exception raised; the length
\* field of the header is unpacked and not used
unpack(data) ==
  IF Len(data) < 12 THEN [exc |-> "ValueError", c |-> NoContainer]
  ELSE LET container_type == unpackH(Slice(data, 4, 6))
           code == unpackH(Slice(data, 6, 8))
           trans_id == unpackI(Slice(data, 8, 12))
           params_data == Slice(data, 12, Len(data))
       IN  [exc |-> "none",
            c |-> IF container_type = DATA
                    THEN PTPContainer(container_type, code, trans_id, <<>>, params_data)
                  ELSE IF container_type = RESPONSE
                    THEN PTPContainer(container_type, code, trans_id,
                                      unpack_params(params_data, <<>>, 5), <<>>)
                  ELSE PTPContainer(container_type, code, trans_id, <<>>, <<>>)]

\* mutant: the limit is a thousand times higher
recv_limit_too_high == 1000 * MaxTransfers * max_chunk_size

\* the limit of _recv_container on the bytes of one container:
\* 100 * 1024 * 1024 bytes in the source, a number of full transfers
RECV_LIMIT == MaxTransfers * max_chunk_size

\* mutant: a final slice shorter than max_chunk_size is not written
RECURSIVE send_whole_slices(_, _, _, _)
send_whole_slices(data, offset, outcomes, written) ==
  IF offset + max_chunk_size <= Len(data)
    THEN LET chunk == Slice(data, offset, offset + max_chunk_size)
             w == IF outcomes = <<>> THEN "ok" ELSE Head(outcomes)
         IN  IF w = "ok"
               THEN send_whole_slices(data, offset + max_chunk_size,
                                      IF outcomes = <<>> THEN <<>> ELSE Tail(outcomes),
                                      Append(written, chunk))
               ELSE [exc |-> IF w = "KeyboardInterrupt" THEN w ELSE "IOError",
                     writes |-> Append(written, chunk)]
    ELSE [exc |-> "none", writes |-> written]

send_container_drops_tail(data, outcomes) == send_whole_slices(data, 0, outcomes, <<>>)

\* mutant: after a failed write the remaining slices are still written
RECURSIVE send_all_slices(_, _, _, _, _)
send_all_slices(data, offset, outcomes, written, exc) ==
  IF offset < Len(data)
    THEN LET chunk_size == IF max_chunk_size < Len(data) - offset
                             THEN max_chunk_size ELSE Len(data) - offset
             chunk == Slice(data, offset, offset + chunk_size)
             w == IF outcomes = <<>> THEN "ok" ELSE Head(outcomes)
         IN  send_all_slices(data, offset + chunk_size,
                             IF outcomes = <<>> THEN <<>> ELSE Tail(outcomes),
                             Append(written, chunk),
                             IF exc # "none" \/ w = "ok" THEN exc
                             ELSE IF w = "KeyboardInterrupt" THEN w ELSE "IOError")
    ELSE [exc |-> exc, writes |-> written]

send_container_keeps_writing(data, outcomes) == send_all_slices(data, 0, outcomes, <<>>, "none")

\* _send_container, the loop "while offset < total": the slices handed to
\* ep_out.write so far, and the exception raised; outcomes are the outcomes
\* of the writes to come (none left: the write succeeds)
RECURSIVE send_slices(_, _, _, _)
send_slices(data, offset, outcomes, written) ==
  IF offset < Len(data)
    THEN LET chunk_size == IF max_chunk_size < Len(data) - offset
                             THEN max_chunk_size ELSE Len(data) - offset
             chunk == Slice(data, offset, offset + chunk_size)
             w == IF outcomes = <<>> THEN "ok" ELSE Head(outcomes)
         IN  IF w = "ok"
               THEN send_slices(data, offset + chunk_size,
                                IF outcomes = <<>> THEN <<>> ELSE Tail(outcomes),
                                Append(written, chunk))
               ELSE [exc |-> IF w = "KeyboardInterrupt" THEN w ELSE "IOError",
                     writes |-> Append(written, chunk)]
    ELSE [exc |-> "none", writes |-> written]

\* _send_container on the packed bytes of a container
send_container_chunks(data, outcomes) == send_slices(data, 0, outcomes, <<>>)

\* one ep_in.read: a chunk of bytes, or the exception raised
Chunk(bytes) == [exc |-> "none", bytes |-> bytes]
ReadFails(e) == [exc |-> e, bytes |-> <<>>]

\* ep_in.read for a list of pending outcomes; with nothing pending the read
\* times out
ep_in_read(reads) == IF reads = <<>> THEN ReadFails("USBError") ELSE Head(reads)

\* what _recv_container makes of an exception raised in its try block
recv_raises(e, data) ==
  [exc |-> IF e = "KeyboardInterrupt" THEN e ELSE "IOError", c |-> NoContainer,
   data |-> data]

\* _recv_container, the loop that reads the remaining chunks, then unpack
RECURSIVE recv_remaining(_, _, _)
recv_remaining(data, total_length, reads) ==
  IF LessThanWord(Len(data), total_length)
    THEN LET chunk == ep_in_read(reads)
             more == data \o chunk.bytes
         IN  IF chunk.exc # "none" THEN recv_raises(chunk.exc, data)
             ELSE IF Len(more) > RECV_LIMIT THEN recv_raises("IOError", more)
             ELSE recv_remaining(more, total_length, Tail(reads))
    ELSE LET u == unpack(data)
         IN  IF u.exc # "none" THEN recv_raises(u.exc, data)
             ELSE [exc |-> "none", c |-> u.c, data |-> data]

\* _recv_container over the chunks the endpoint delivers: the container
\* returned or the exception raised, and the bytes accumulated
recv_container_chunks(reads) ==
  LET first_chunk == ep_in_read(reads)
      data == first_chunk.bytes
  IN  IF first_chunk.exc # "none" THEN recv_raises(first_chunk.exc, <<>>)
      ELSE IF Len(data) < 12 THEN recv_raises("IOError", data)
      ELSE recv_remaining(data, unpackI(Slice(data, 0, 4)), Tail(reads))

(***************************************************************************)
(* The environment: outcomes of one bulk write of a container and of one   *)
(* container read.                                                         *)
(***************************************************************************)
WriteOutcomes == {"ok", "USBError", "KeyboardInterrupt"}

\* payloads a Data container from the camera may carry: for an enumeration
\* (GetObjectHandles) no bytes, a list of zero, one or two handles, or a
\* list cut short; for any other operation no bytes or some bytes
Payloads(opcode) ==
  IF opcode = GetObjectHandles
    THEN { <<>>,
           <<0, 0, 0, 0>>,
           <<1, 0, 0, 0>>,
           <<1, 0, 0, 0, 7, 0, 0, 0>>,
           <<2, 0, 0, 0, 9, 0, 0, 0, 7, 0, 0, 0>> }
    ELSE { <<>>, <<255, 216, 255, 224>> }

\* what PTPContainer.unpack can return for the frames the camera may send
\* while the command (opcode, trans_id) is in progress: Data and Response
\* containers of that transaction or of another one, and the other kinds
DataContainers(opcode, trans_id) ==
       { PTPContainer(DATA, opcode, trans_id, <<>>, d) : d \in Payloads(opcode) }
  \cup { PTPContainer(DATA, opcode, 0, <<>>, <<1, 0, 0, 0, 7, 0, 0, 0>>) }

OtherContainers(opcode, trans_id) ==
       { PTPContainer(RESPONSE, c, trans_id, <<>>, <<>>) :
           c \in {OK, GeneralError, SessionAlreadyOpen} }
  \cup { PTPContainer(RESPONSE, OK, trans_id, <<1>>, <<>>),
         PTPContainer(RESPONSE, OK, 0, <<>>, <<>>),
         PTPContainer(EVENT, 0, trans_id, <<>>, <<>>),
         PTPContainer(COMMAND, opcode, trans_id, <<>>, <<>>),
         PTPContainer(0, 0, trans_id, <<>>, <<>>) }

Returned(containers) == { [exc |-> "none", c |-> k] : k \in containers }

ReadErrors == { [exc |-> e, c |-> NoContainer] : e \in {"USBError", "KeyboardInterrupt"} }

\* a read or write the command never gets to
NotRead == [exc |-> "none", c |-> NoContainer]
NotWritten == "ok"

\* outcomes of the first read of a command
ReadOutcomes(opcode, trans_id) ==
  Returned(DataContainers(opcode, trans_id)) \cup Returned(OtherContainers(opcode, trans_id))
  \cup ReadErrors

\* outcomes of the read that follows a Data container
SecondReadOutcomes(opcode, trans_id) ==
  Returned({ PTPContainer(DATA, opcode, trans_id, <<>>, <<>>),
             PTPContainer(RESPONSE, OK, trans_id, <<>>, <<>>),
             PTPContainer(RESPONSE, OK, 0, <<>>, <<>>),
             PTPContainer(RESPONSE, GeneralError, trans_id, <<>>, <<>>),
             PTPContainer(EVENT, 0, trans_id, <<>>, <<>>) })
  \cup ReadErrors

\* the outcomes of the transport operations of one send_command: the write
\* of the Command, the first read, and the read after a Data container
CommandScripts(opcode, trans_id) ==
       { [w1 |-> w, w2 |-> NotWritten, r1 |-> NotRead, r2 |-> NotRead] :
           w \in WriteOutcomes \ {"ok"} }
  \cup { [w1 |-> "ok", w2 |-> NotWritten, r1 |-> r, r2 |-> NotRead] :
           r \in Returned(OtherContainers(opcode, trans_id)) \cup ReadErrors }
  \cup { [w1 |-> "ok", w2 |-> NotWritten, r1 |-> r, r2 |-> q] :
           r \in Returned(DataContainers(opcode, trans_id)),
           q \in SecondReadOutcomes(opcode, trans_id) }

\* the outcomes of the transport operations of one send_data_command: the
\* writes of the Command and of the Data container, and the read
DataCommandScripts(opcode, trans_id) ==
       { [w1 |-> w, w2 |-> NotWritten, r1 |-> NotRead, r2 |-> NotRead] :
           w \in WriteOutcomes \ {"ok"} }
  \cup { [w1 |-> "ok", w2 |-> w, r1 |-> NotRead, r2 |-> NotRead] :
           w \in WriteOutcomes \ {"ok"} }
  \cup { [w1 |-> "ok", w2 |-> "ok", r1 |-> r, r2 |-> NotRead] :
           r \in ReadOutcomes(opcode, trans_id) }

(***************************************************************************)
(* Command executor (FujiCamera).                                          *)
(***************************************************************************)
\* mutant: the counter is read but not advanced
next_transaction_id_stuck(transaction_id) == transaction_id

_next_transaction_id(transaction_id) == transaction_id + 1

\* the exception _send_container raises ("none": it returns)
_send_container(container, w) ==
  CASE w = "ok" -> "none"
    [] w = "USBError" -> "IOError"
    [] OTHER -> "KeyboardInterrupt"

\* the container _recv_container returns, or the exception it raises
_recv_container(r) ==
  CASE r.exc = "none" -> [exc |-> "none", c |-> r.c]
    [] r.exc = "USBError" -> [exc |-> "IOError", c |-> NoContainer]
    [] OTHER -> [exc |-> "KeyboardInterrupt", c |-> NoContainer]

\* the record of one command: the call, the containers handed to
\* _send_container with the outcome of each write, the reads made, and the
\* exception raised or the values returned
Exchange(shape, counter, opcode, params, data_in, writes, reads, exc, code, rparams, rdata) ==
  [shape |-> shape, counter |-> counter, opcode |-> opcode, params |-> params,
   data_in |-> data_in, writes |-> writes, reads |-> reads, exc |-> exc,
   code |-> code, rparams |-> rparams, rdata |-> rdata]

NoExchange == Exchange("none", 0, 0, <<>>, <<>>, <<>>, <<>>, "none", 0, <<>>, <<>>)

\* mutant: the data phase ends the command, the Response is left unread
send_command_no_second_read(transaction_id, opcode, params, io) ==
  LET trans_id == _next_transaction_id(transaction_id)
      cmd == PTPContainer(COMMAND, opcode, trans_id, params, <<>>)
      wr == <<[c |-> cmd, w |-> io.w1]>>
      X(reads, exc, code, rparams, rdata) ==
        Exchange("send_command", trans_id, opcode, params, <<>>, wr, reads, exc,
                 code, rparams, rdata)
      s1 == _send_container(cmd, io.w1)
      r1 == _recv_container(io.r1)
  IN  IF s1 # "none" THEN X(<<>>, s1, 0, <<>>, <<>>)
      ELSE IF r1.exc # "none" THEN X(<<io.r1>>, r1.exc, 0, <<>>, <<>>)
      ELSE IF r1.c.type = DATA THEN X(<<io.r1>>, "none", OK, <<>>, r1.c.data)
      ELSE IF r1.c.type # RESPONSE THEN X(<<io.r1>>, "IOError", 0, <<>>, <<>>)
      ELSE X(<<io.r1>>, "none", r1.c.code, r1.c.params, <<>>)

\* mutant: the container after the data phase is not checked to be a Response
send_command_unchecked(transaction_id, opcode, params, io) ==
  LET trans_id == _next_transaction_id(transaction_id)
      cmd == PTPContainer(COMMAND, opcode, trans_id, params, <<>>)
      wr == <<[c |-> cmd, w |-> io.w1]>>
      X(reads, exc, code, rparams, rdata) ==
        Exchange("send_command", trans_id, opcode, params, <<>>, wr, reads, exc,
                 code, rparams, rdata)
      s1 == _send_container(cmd, io.w1)
      r1 == _recv_container(io.r1)
      r2 == _recv_container(io.r2)
  IN  IF s1 # "none" THEN X(<<>>, s1, 0, <<>>, <<>>)
      ELSE IF r1.exc # "none" THEN X(<<io.r1>>, r1.exc, 0, <<>>, <<>>)
      ELSE IF r1.c.type = DATA
        THEN IF r2.exc # "none" THEN X(<<io.r1, io.r2>>, r2.exc, 0, <<>>, <<>>)
             ELSE X(<<io.r1, io.r2>>, "none", r2.c.code, r2.c.params, r1.c.data)
      ELSE IF r1.c.type # RESPONSE THEN X(<<io.r1>>, "IOError", 0, <<>>, <<>>)
      ELSE X(<<io.r1>>, "none", r1.c.code, r1.c.params, <<>>)

send_command(transaction_id, opcode, params, io) ==
  LET trans_id == _next_transaction_id(transaction_id)
      cmd == PTPContainer(COMMAND, opcode, trans_id, params, <<>>)
      wr == <<[c |-> cmd, w |-> io.w1]>>
      X(reads, exc, code, rparams, rdata) ==
        Exchange("send_command", trans_id, opcode, params, <<>>, wr, reads, exc,
                 code, rparams, rdata)
      s1 == _send_container(cmd, io.w1)
      r1 == _recv_container(io.r1)
      r2 == _recv_container(io.r2)
  IN  IF s1 # "none" THEN X(<<>>, s1, 0, <<>>, <<>>)
      ELSE IF r1.exc # "none" THEN X(<<io.r1>>, r1.exc, 0, <<>>, <<>>)
      ELSE IF r1.c.type = DATA
        THEN IF r2.exc # "none" THEN X(<<io.r1, io.r2>>, r2.exc, 0, <<>>, <<>>)
             ELSE IF r2.c.type # RESPONSE THEN X(<<io.r1, io.r2>>, "IOError", 0, <<>>, <<>>)
             ELSE X(<<io.r1, io.r2>>, "none", r2.c.code, r2.c.params, r1.c.data)
      ELSE IF r1.c.type # RESPONSE THEN X(<<io.r1>>, "IOError", 0, <<>>, <<>>)
      ELSE X(<<io.r1>>, "none", r1.c.code, r1.c.params, <<>>)

\* mutant: the Data container takes a transaction id of its own
send_data_command_new_id(transaction_id, opcode, params, data, io) ==
  LET trans_id == _next_transaction_id(transaction_id)
      data_id == _next_transaction_id(trans_id)
      cmd == PTPContainer(COMMAND, opcode, trans_id, params, <<>>)
      data_cont == PTPContainer(DATA, opcode, data_id, <<>>, data)
      w1 == <<[c |-> cmd, w |-> io.w1]>>
      w2 == <<[c |-> cmd, w |-> io.w1], [c |-> data_cont, w |-> io.w2]>>
      X(writes, reads, exc, code, rparams) ==
        Exchange("send_data_command", data_id, opcode, params, data, writes, reads,
                 exc, code, rparams, <<>>)
      s1 == _send_container(cmd, io.w1)
      s2 == _send_container(data_cont, io.w2)
      resp == _recv_container(io.r1)
  IN  IF s1 # "none" THEN X(w1, <<>>, s1, 0, <<>>)
      ELSE IF s2 # "none" THEN X(w2, <<>>, s2, 0, <<>>)
      ELSE IF resp.exc # "none" THEN X(w2, <<io.r1>>, resp.exc, 0, <<>>)
      ELSE IF resp.c.type # RESPONSE THEN X(w2, <<io.r1>>, "IOError", 0, <<>>)
      ELSE X(w2, <<io.r1>>, "none", resp.c.code, resp.c.params)

send_data_command(transaction_id, opcode, params, data, io) ==
  LET trans_id == _next_transaction_id(transaction_id)
      cmd == PTPContainer(COMMAND, opcode, trans_id, params, <<>>)
      data_cont == PTPContainer(DATA, opcode, trans_id, <<>>, data)
      w1 == <<[c |-> cmd, w |-> io.w1]>>
      w2 == <<[c |-> cmd, w |-> io.w1], [c |-> data_cont, w |-> io.w2]>>
      X(writes, reads, exc, code, rparams) ==
        Exchange("send_data_command", trans_id, opcode, params, data, writes, reads,
                 exc, code, rparams, <<>>)
      s1 == _send_container(cmd, io.w1)
      s2 == _send_container(data_cont, io.w2)
      resp == _recv_container(io.r1)
  IN  IF s1 # "none" THEN X(w1, <<>>, s1, 0, <<>>)
      ELSE IF s2 # "none" THEN X(w2, <<>>, s2, 0, <<>>)
      ELSE IF resp.exc # "none" THEN X(w2, <<io.r1>>, resp.exc, 0, <<>>)
      ELSE IF resp.c.type # RESPONSE THEN X(w2, <<io.r1>>, "IOError", 0, <<>>)
      ELSE X(w2, <<io.r1>>, "none", resp.c.code, resp.c.params)

(***************************************************************************)
(* Profile codec (fuji_profile.py).                                        *)
(***************************************************************************)
PROFILE_SIZE_STANDARD == 632
NUM_PARAMS == 29
PROFILE_PARAMS_OFFSET == 513   \* 0x201

\* mutant: the tone value is stored as it is
encode_tone_value_unscaled(value) == value

encode_tone_value(value) == value * 10

\* INDEX_TO_PARAM[i] of the source is INDEX_TO_PARAM[i + 1] here
INDEX_TO_PARAM ==
  << "ShootingCondition", "FileType", "ImageSize", "ImageQuality", "ExposureBias",
     "DynamicRange", "WideDRange", "FilmSimulation", "GrainEffect", "SmoothSkinEffect",
     "WBShootCond", "WhiteBalance", "WBShiftR", "WBShiftB", "WBColorTemp",
     "HighlightTone", "ShadowTone", "Color", "Sharpness", "NoiseReduction",
     "Clarity", "ColorSpace", "HDR", "DigitalTeleConv", "PortraitEnhancer",
     "Reserved25", "Reserved26", "Reserved27", "Reserved28" >>

ParamNames == { INDEX_TO_PARAM[i] : i \in 1..NUM_PARAMS }

TONE_PARAMS == {"HighlightTone", "ShadowTone", "Color", "Sharpness", "NoiseReduction", "Clarity"}

default_params ==
  [n \in ParamNames |->
     CASE n = "ShootingCondition" -> 2
       [] n = "FileType" -> 7
       [] n = "ImageSize" -> 7
       [] n = "ImageQuality" -> 2
       [] n = "DynamicRange" -> 1
       [] n = "FilmSimulation" -> 1
       [] OTHER -> 0]

\* the vendor tag "FF159502", as character codes
DefaultIOPCode == <<70, 70, 49, 53, 57, 53, 48, 50>>

\* struct.pack_into(fmt, buf, offset, v), given the packed bytes of v
pack_into(buf, offset, bytes) ==
  [i \in 1..Len(buf) |->
     IF i - 1 >= offset /\ i - 1 < offset + Len(bytes) THEN bytes[i - offset] ELSE buf[i]]

\* the loop "for c in iopcode" from character k on: character j goes, as
\* '<H', to offset 3 + 2 * (j - 1)
WriteIOPCode(buf, iopcode, k) ==
  [i \in 1..Len(buf) |->
     LET o == i - 1 - 3
         j == (o \div 2) + 1
     IN  IF o >= 2 * (k - 1) /\ j <= Len(iopcode) THEN packH(iopcode[j])[(o % 2) + 1]
         ELSE buf[i]]

\* params after default_params.copy(), update(changes) and the tone encoding
EncodedParams(changes) ==
  [n \in ParamNames \cup DOMAIN changes |->
     LET v == IF n \in DOMAIN changes THEN changes[n] ELSE default_params[n]
     IN  IF n \in TONE_PARAMS THEN encode_tone_value(v) ELSE v]

\* Field i (0-based) as struct.pack_into('<I', ...) receives it.  A 32-bit
\* word w >= 2^31 is written here as the integer w - 2^32 (the tool's
\* integers are 32-bit): (1 << 32) + value and value have the same four bytes.
FieldWord(changes, i) == EncodedParams(changes)[INDEX_TO_PARAM[i + 1]]

RECURSIVE WriteParams(_, _, _)
\* the loop "for i in range(NUM_PARAMS)" from field i on
WriteParams(buf, changes, i) ==
  IF i >= NUM_PARAMS THEN buf
  ELSE WriteParams(pack_into(buf, PROFILE_PARAMS_OFFSET + i * 4, packI(FieldWord(changes, i))),
                   changes, i + 1)

\* struct.error: a tone value v whose v * 10 does not fit '<I' after the
\* two's complement step, i.e. v * 10 outside -2^32 .. 2^32 - 1
create_profile_raises(changes) ==
  \E n \in TONE_PARAMS \cap DOMAIN changes :
     changes[n] > 429496729 \/ changes[n] < -429496729

\* mutant: a name that is not a profile field adds a word to the record
create_profile_appends_unknown(camera_profile, changes, iopcode) ==
  LET b0 == [i \in 1..PROFILE_SIZE_STANDARD |-> 0]
      b1 == pack_into(b0, 0, packH(NUM_PARAMS))
      b2 == pack_into(b1, 2, packB(Len(iopcode) + 1))
      b3 == WriteIOPCode(b2, iopcode, 1)
      b4 == pack_into(b3, 3 + 2 * Len(iopcode), packH(0))
  IN  WriteParams(b4, changes, 0)
      \o [k \in 1..(4 * Cardinality(DOMAIN changes \ ParamNames)) |-> 0]

\* mutant: a field without an override keeps the word of the baseline
create_profile_keeps_baseline(camera_profile, changes, iopcode) ==
  LET b0 == [i \in 1..PROFILE_SIZE_STANDARD |-> 0]
      b1 == pack_into(b0, 0, packH(NUM_PARAMS))
      b2 == pack_into(b1, 2, packB(Len(iopcode) + 1))
      b3 == WriteIOPCode(b2, iopcode, 1)
      b4 == pack_into(b3, 3 + 2 * Len(iopcode), packH(0))
      out == WriteParams(b4, changes, 0)
  IN  [i \in 1..PROFILE_SIZE_STANDARD |->
         IF /\ i > PROFILE_PARAMS_OFFSET /\ i <= PROFILE_PARAMS_OFFSET + NUM_PARAMS * 4
            /\ i <= Len(camera_profile)
            /\ INDEX_TO_PARAM[((i - PROFILE_PARAMS_OFFSET - 1) \div 4) + 1] \notin DOMAIN changes
           THEN camera_profile[i] ELSE out[i]]

create_profile_from_camera(camera_profile, changes, iopcode) ==
  LET b0 == [i \in 1..PROFILE_SIZE_STANDARD |-> 0]
      b1 == pack_into(b0, 0, packH(NUM_PARAMS))
      b2 == pack_into(b1, 2, packB(Len(iopcode) + 1))
      b3 == WriteIOPCode(b2, iopcode, 1)
      b4 == pack_into(b3, 3 + 2 * Len(iopcode), packH(0))
  IN  WriteParams(b4, changes, 0)

\* mutant: shadows are checked against the range of highlights
validate_params_lax_shadows(film_sim, exposure, highlights, shadows, color, sharpness) ==
  \/ film_sim # <<>> /\ (film_sim[1] < 1 \/ film_sim[1] > 17)
  \/ exposure # <<>> /\ (exposure[1] < -5000 \/ exposure[1] > 5000)
  \/ highlights # <<>> /\ (highlights[1] < -4 \/ highlights[1] > 4)
  \/ shadows # <<>> /\ (shadows[1] < -4 \/ shadows[1] > 4)
  \/ color # <<>> /\ (color[1] < -4 \/ color[1] > 4)
  \/ sharpness # <<>> /\ (sharpness[1] < -4 \/ sharpness[1] > 4)

\* validate_params: TRUE when it raises ValueError.  An absent argument
\* (None) is the empty sequence, a given one a sequence of one value;
\* exposure is in thousandths of an EV.
validate_params_raises(film_sim, exposure, highlights, shadows, color, sharpness) ==
  \/ film_sim # <<>> /\ (film_sim[1] < 1 \/ film_sim[1] > 17)
  \/ exposure # <<>> /\ (exposure[1] < -5000 \/ exposure[1] > 5000)
  \/ highlights # <<>> /\ (highlights[1] < -4 \/ highlights[1] > 4)
  \/ shadows # <<>> /\ (shadows[1] < -2 \/ shadows[1] > 4)
  \/ color # <<>> /\ (color[1] < -4 \/ color[1] > 4)
  \/ sharpness # <<>> /\ (sharpness[1] < -4 \/ sharpness[1] > 4)

\* struct.error in the header of create_profile_from_camera: a tag whose
\* length + 1 does not fit '<B', or with a character that does not fit '<H'
iopcode_raises(iopcode) ==
  \/ Len(iopcode) + 1 > 255
  \/ \E k \in 1..Len(iopcode) : iopcode[k] > 65535

\* A Python integer n of up to 48 bits, as the pair hi, lo with
\* n = hi * 2^16 + lo and lo in 0 .. 2^16 - 1 (the tool's integers are 32-bit)
WideOf(n) == [hi |-> n \div 65536, lo |-> n % 65536]

\* struct.unpack_from('<I', data, offset)[0]: the unsigned word
unpack_from_I(data, offset) ==
  [hi |-> data[offset + 3] + 256 * data[offset + 4],
   lo |-> data[offset + 1] + 256 * data[offset + 2]]

\* "if value > 0x7FFFFFFF: value = value - 0x100000000"
to_signed(value) ==
  IF value.hi > 32767 THEN [hi |-> value.hi - 65536, lo |-> value.lo] ELSE value

\* mutant: the division by ten is left out
decode_tone_value_undivided(encoded) ==
  LET e == to_signed(encoded) IN e.hi * 65536 + e.lo

\* mutant: 2^31 is subtracted in place of 2^32
decode_tone_value_half(encoded) ==
  LET e == IF encoded.hi > 32767 THEN [hi |-> encoded.hi - 32768, lo |-> encoded.lo]
           ELSE encoded
  IN  (e.hi * 65536 + e.lo) \div 10

\* decode_tone_value: two's complement, then floor division by ten
decode_tone_value(encoded) ==
  LET e == to_signed(encoded) IN (e.hi * 65536 + e.lo) \div 10

\* _parse_xt30_format: an empty dictionary
_parse_xt30_format(data) == [n \in {} |-> 0]

\* struct.error in parse_profile: a struct.unpack_from('<I', data, offset)
\* of the long layout that needs bytes beyond the end of data
parse_profile_raises(data) ==
  /\ ~(Len(data) < PROFILE_PARAMS_OFFSET + NUM_PARAMS * 4)
  /\ \E i \in 0..(NUM_PARAMS - 1) : PROFILE_PARAMS_OFFSET + i * 4 + 4 > Len(data)

\* mutant: a short input is parsed as far as its fields are complete
parse_profile_partial(data) ==
  [n \in { m \in ParamNames :
             \E k \in 0..(NUM_PARAMS - 1) :
                INDEX_TO_PARAM[k + 1] = m /\ PROFILE_PARAMS_OFFSET + k * 4 + 4 <= Len(data) } |->
     LET i == CHOOSE k \in 0..(NUM_PARAMS - 1) : INDEX_TO_PARAM[k + 1] = n
         value == to_signed(unpack_from_I(data, PROFILE_PARAMS_OFFSET + i * 4))
     IN  IF n \in TONE_PARAMS THEN decode_tone_value(value)
         ELSE value.hi * 65536 + value.lo]

\* parse_profile
parse_profile(data) ==
  IF Len(data) < PROFILE_PARAMS_OFFSET + NUM_PARAMS * 4
    THEN _parse_xt30_format(data)
    ELSE [n \in ParamNames |->
            LET i == CHOOSE k \in 0..(NUM_PARAMS - 1) : INDEX_TO_PARAM[k + 1] = n
                value == to_signed(unpack_from_I(data, PROFILE_PARAMS_OFFSET + i * 4))
            IN  IF n \in TONE_PARAMS THEN decode_tone_value(value)
                ELSE value.hi * 65536 + value.lo]

(***************************************************************************)
(* The workflow (main) and the session manager, as a state machine.        *)
(***************************************************************************)
VARIABLES
  pc,               \* position of main
  ret,              \* how main ended: "0", "1", "raised" (uncaught), "" while running
  failure,          \* the first failing step, its exception, Len(sent) at that time
  args,             \* the parsed command line
  dev,              \* FujiCamera.dev: "None" or "dev"
  ep_ok,            \* ep_in and ep_out are both set
  interface,        \* USB interface 0: "unclaimed", "claimed", "released", "release_failed"
  transaction_id,   \* FujiCamera.transaction_id
  sent,             \* every container handed to _send_container, with its write outcome
  last,             \* the most recent command (an Exchange)
  original_profile, \* main's locals
  modified_profile,
  handle,
  jpeg_data,
  elapsed,          \* time.time() - start_time in wait_for_result, in seconds
  close_result,     \* how close_session ended: "not_called", "returned" or the exception
  open_first,       \* response code of open_session's first OpenSession (0: none yet)
  open_result,      \* how open_session ended: "True", "False", "raised", "" before that
  codec,            \* a container on its way through pack, the wire and unpack
  prof              \* a profile on its way through validation, creation and parsing

vars == <<pc, ret, failure, args, dev, ep_ok, interface, transaction_id, sent, last,
          original_profile, modified_profile, handle, jpeg_data, elapsed, close_result,
          open_first, open_result, codec, prof>>

NoFailure == [step |-> "none", exc |-> "none", at |-> 0]

\* command lines: an option that was not given is <<>>, a given one <<value>>
NoOptions ==
  [film_sim |-> <<>>, exposure |-> <<>>, highlights |-> <<>>, shadows |-> <<>>,
   color |-> <<>>, sharpness |-> <<>>, nr |-> <<>>, white_balance |-> <<>>,
   dynamic_range |-> <<>>, raf_data |-> <<70, 85, 74, 73>>]

Requests ==
  { [NoOptions EXCEPT !.film_sim = <<11>>, !.exposure = <<700>>, !.highlights = <<2>>,
                      !.shadows = <<-1>>],
    [NoOptions EXCEPT !.shadows = <<-3>>, !.raf_data = <<>>] }

\* the dictionary "changes" main builds from the command line
Changes(a) ==
  LET given == { n \in {"FilmSimulation", "ExposureBias", "HighlightTone", "ShadowTone",
                        "Color", "Sharpness", "NoiseReduction", "WhiteBalance",
                        "DynamicRange"} :
                   CASE n = "FilmSimulation" -> a.film_sim # <<>>
                     [] n = "ExposureBias" -> a.exposure # <<>>
                     [] n = "HighlightTone" -> a.highlights # <<>>
                     [] n = "ShadowTone" -> a.shadows # <<>>
                     [] n = "Color" -> a.color # <<>>
                     [] n = "Sharpness" -> a.sharpness # <<>>
                     [] n = "NoiseReduction" -> a.nr # <<>>
                     [] n = "WhiteBalance" -> a.white_balance # <<>>
                     [] OTHER -> a.dynamic_range # <<>> }
  IN  [n \in given |->
         CASE n = "FilmSimulation" -> a.film_sim[1]
           [] n = "ExposureBias" -> a.exposure[1]
           [] n = "HighlightTone" -> a.highlights[1]
           [] n = "ShadowTone" -> a.shadows[1]
           [] n = "Color" -> a.color[1]
           [] n = "Sharpness" -> a.sharpness[1]
           [] n = "NoiseReduction" -> a.nr[1]
           [] n = "WhiteBalance" -> a.white_balance[1]
           [] OTHER -> a.dynamic_range[1]]

\* changes.get(name)
Get(changes, name) == IF name \in DOMAIN changes THEN <<changes[name]>> ELSE <<>>

\* the ObjectInfo record send_raf builds for a file of raf_data
object_info(raf_data) ==
  LET filename == <<70, 85, 80, 95, 70, 73, 76, 69, 46, 100, 97, 116>>   \* "FUP_FILE.dat"
      RECURSIVE Wide(_)
      Wide(k) == IF k > Len(filename) THEN <<>> ELSE packH(filename[k]) \o Wide(k + 1)
  IN  packI(0) \o packH(63490) \o packH(0) \o packI(Len(raf_data)) \o packH(0)
      \o packI(0) \o packI(0) \o packI(0) \o packI(0) \o packI(0) \o packI(0)
      \o packI(0) \o packH(0) \o packI(0) \o packI(0)
      \o packB(Len(filename) + 1) \o Wide(1) \o packH(0)
      \o packB(0) \o packB(0) \o packB(0)

\* nothing is being encoded or decoded
NoCodec ==
  [stage |-> "none", c |-> NoContainer, bytes |-> <<>>,
   send |-> [exc |-> "none", writes |-> <<>>, outcomes |-> <<>>],
   reads |-> <<>>, nreads |-> 0,
   result |-> [exc |-> "none", c |-> NoContainer, data |-> <<>>]]

\* no profile is being built
NoProfile ==
  [stage |-> "none", changes |-> <<>>, iopcode |-> <<>>, exc |-> "none",
   validated |-> FALSE, baseline |-> <<>>, profile |-> <<>>, params |-> <<>>,
   v |-> 0, encoded |-> 0, word |-> <<>>, from_word |-> 0, from_signed |-> 0]

\* a new FujiCamera, and main not started
Fresh ==
  /\ ret = ""
  /\ failure = NoFailure
  /\ dev = "None"
  /\ ep_ok = FALSE
  /\ interface = "unclaimed"
  /\ transaction_id = 0
  /\ sent = <<>>
  /\ last = NoExchange
  /\ original_profile = <<>>
  /\ modified_profile = <<>>
  /\ handle = 0
  /\ jpeg_data = <<>>
  /\ elapsed = 0
  /\ close_result = "not_called"
  /\ open_first = 0
  /\ open_result = ""

Init ==
  /\ pc = "connect"
  /\ args \in Requests
  /\ codec = NoCodec
  /\ prof = NoProfile
  /\ Fresh

\* the effect of one command on the connection
Do(x) ==
  /\ transaction_id' = x.counter
  /\ sent' = sent \o x.writes
  /\ last' = x

\* main returns or raises without entering its try block
Leave(r) ==
  /\ pc' = "exit"
  /\ ret' = r

\* main's locals are dead once it leaves the try block
Forget ==
  /\ original_profile' = <<>>
  /\ modified_profile' = <<>>
  /\ handle' = 0
  /\ jpeg_data' = <<>>
  /\ elapsed' = 0

\* an exception in the try block of main: the handlers return 1, then finally
Raise(step, exc) ==
  /\ pc' = "finally"
  /\ ret' = "1"
  /\ failure' = [step |-> step, exc |-> exc, at |-> Len(sent')]
  /\ Forget

Goto(p) ==
  /\ pc' = p
  /\ UNCHANGED <<ret, failure>>

Locals == <<original_profile, modified_profile, handle, jpeg_data, elapsed>>
Usb == <<dev, ep_ok, interface, close_result>>
Session == <<open_first, open_result>>

\* connect() up to the call of open_session
Connect ==
  /\ pc = "connect"
  /\ \E found \in BOOLEAN, claim_ok \in BOOLEAN, bulk \in BOOLEAN :
       IF ~found
         THEN /\ Leave("1")
              /\ UNCHANGED <<dev, ep_ok, interface>>
       ELSE IF ~claim_ok
         THEN /\ dev' = "dev"
              /\ Leave("1")
              /\ UNCHANGED <<ep_ok, interface>>
       ELSE IF ~bulk
         THEN /\ dev' = "dev"
              /\ interface' = "claimed"
              /\ Leave("1")
              /\ UNCHANGED ep_ok
       ELSE /\ dev' = "dev"
            /\ interface' = "claimed"
            /\ ep_ok' = TRUE
            /\ pc' = "open_session"
            /\ UNCHANGED ret
  /\ UNCHANGED <<failure, args, codec, prof, transaction_id, sent, last, Locals, close_result, Session>>

\* mutant: every code but OK starts the close-and-reopen recovery
open_session_first_always_recovers(code) ==
  IF code = OK THEN "True" ELSE "recover"

\* what open_session does with the code of its first OpenSession
open_session_first(code) ==
  IF code = OK THEN "True"
  ELSE IF code = SessionAlreadyOpen THEN "recover"
  ELSE "False"

\* mutant: the retry counts as a success unless the camera reports a general error
open_session_retry_lenient(code) ==
  IF code = GeneralError THEN "False" ELSE "True"

\* what open_session returns for the code of the retry
open_session_retry(code) ==
  IF code = OK THEN "True" ELSE "False"

\* mutant: main goes on whatever connect() returned
Connected_result_ignored(r) ==
  /\ open_result' = r
  /\ pc' = "send_raf" /\ UNCHANGED ret

\* open_session returned r to connect(), which returns it to main: False
\* returns 1, True enters the try block
Connected(r) ==
  /\ open_result' = r
  /\ IF r = "True" THEN pc' = "send_raf" /\ UNCHANGED ret ELSE Leave("1")

\* an exception of open_session: connect() is outside the try block of main
Uncaught ==
  /\ open_result' = "raised"
  /\ Leave("raised")

\* open_session: the first OpenSession
OpenSessionFirst ==
  /\ pc = "open_session"
  /\ \E io \in CommandScripts(OpenSession, transaction_id + 1) :
       LET x == send_command(transaction_id, OpenSession, <<session_id>>, io)
       IN  /\ Do(x)
           /\ IF x.exc # "none" THEN Uncaught /\ UNCHANGED open_first
              ELSE /\ open_first' = x.code
                   /\ IF open_session_first(x.code) = "recover"
                        THEN pc' = "open_close" /\ UNCHANGED <<ret, open_result>>
                        ELSE Connected(open_session_first(x.code))
  /\ UNCHANGED <<failure, args, codec, prof, Usb, Locals>>

\* open_session: the CloseSession of the recovery, whose errors are ignored
OpenSessionClose ==
  /\ pc = "open_close"
  /\ \E io \in CommandScripts(CloseSession, transaction_id + 1) :
       Do(send_command(transaction_id, CloseSession, <<>>, io))
  /\ pc' = "open_retry"
  /\ UNCHANGED <<ret, failure, args, codec, prof, Usb, Locals, Session>>

\* open_session: the retry
OpenSessionRetry ==
  /\ pc = "open_retry"
  /\ \E io \in CommandScripts(OpenSession, transaction_id + 1) :
       LET x == send_command(transaction_id, OpenSession, <<session_id>>, io)
       IN  /\ Do(x)
           /\ IF x.exc # "none" THEN Uncaught
              ELSE Connected(open_session_retry(x.code))
  /\ UNCHANGED <<failure, args, codec, prof, Usb, Locals, open_first>>

\* send_raf: the vendor SendObjectInfo (0x900C) with the ObjectInfo record
SendObjectInfo ==
  /\ pc = "send_raf"
  /\ \E io \in DataCommandScripts(FUJI_SendObjectInfo, transaction_id + 1) :
       LET x == send_data_command(transaction_id, FUJI_SendObjectInfo, <<0, 0, 0>>,
                                  object_info(args.raf_data), io)
       IN  /\ Do(x)
           /\ IF x.exc # "none" THEN Raise("upload", x.exc)
              ELSE IF x.code # OK THEN Raise("upload", "IOError")
              ELSE Goto("send_object") /\ UNCHANGED Locals
  /\ UNCHANGED <<args, codec, prof, Usb, Session>>

\* send_raf: the vendor SendObject2 (0x900D) with the file's bytes
SendObject2 ==
  /\ pc = "send_object"
  /\ \E io \in DataCommandScripts(FUJI_SendObject2, transaction_id + 1) :
       LET x == send_data_command(transaction_id, FUJI_SendObject2, <<>>, args.raf_data, io)
       IN  /\ Do(x)
           /\ IF x.exc # "none" THEN Raise("upload", x.exc)
              ELSE IF x.code # OK THEN Raise("upload", "IOError")
              ELSE Goto("get_profile") /\ UNCHANGED Locals
  /\ UNCHANGED <<args, codec, prof, Usb, Session>>

\* mutant: the response code of GetDevicePropValue is not checked
get_profile_raises_unchecked(x) == Len(x.rdata) = 0

\* get_profile: the checks after the command returned
get_profile_raises(x) == x.code # OK \/ Len(x.rdata) = 0

\* get_profile
GetProfile ==
  /\ pc = "get_profile"
  /\ \E io \in CommandScripts(GetDevicePropValue, transaction_id + 1) :
       LET x == send_command(transaction_id, GetDevicePropValue,
                             <<PTP_DPC_FUJI_RawConvProfile>>, io)
       IN  /\ Do(x)
           /\ IF x.exc # "none" THEN Raise("get_profile", x.exc)
              ELSE IF get_profile_raises(x) THEN Raise("get_profile", "IOError")
              ELSE /\ Goto("build_profile")
                   /\ original_profile' = x.rdata
                   /\ UNCHANGED <<modified_profile, handle, jpeg_data, elapsed>>
  /\ UNCHANGED <<args, codec, prof, Usb, Session>>

\* main: build the changes, validate them, create the profile; the camera's
\* profile is not read again
BuildProfile ==
  /\ pc = "build_profile"
  /\ UNCHANGED <<args, codec, prof, Usb, Session, transaction_id, sent, last>>
  /\ LET changes == Changes(args)
     IN  IF validate_params_raises(Get(changes, "FilmSimulation"), args.exposure,
                                   Get(changes, "HighlightTone"), Get(changes, "ShadowTone"),
                                   Get(changes, "Color"), Get(changes, "Sharpness"))
           THEN Raise("validate", "ValueError")
         ELSE IF create_profile_raises(changes)
           THEN Raise("build", "struct.error")
         ELSE /\ Goto("set_profile")
              /\ modified_profile' =
                   create_profile_from_camera(original_profile, changes, DefaultIOPCode)
              /\ original_profile' = <<>>
              /\ UNCHANGED <<handle, jpeg_data, elapsed>>

\* set_profile; the profile is not read again
SetProfile ==
  /\ pc = "set_profile"
  /\ \E io \in DataCommandScripts(SetDevicePropValue, transaction_id + 1) :
       LET x == send_data_command(transaction_id, SetDevicePropValue,
                                  <<PTP_DPC_FUJI_RawConvProfile>>, modified_profile, io)
       IN  /\ Do(x)
           /\ IF x.exc # "none" THEN Raise("set_profile", x.exc)
              ELSE IF x.code # OK THEN Raise("set_profile", "IOError")
              ELSE /\ Goto("trigger")
                   /\ modified_profile' = <<>>
                   /\ UNCHANGED <<original_profile, handle, jpeg_data, elapsed>>
  /\ UNCHANGED <<args, codec, prof, Usb, Session>>

\* trigger_conversion: the trigger property, value struct.pack('<H', 0)
TriggerConversion ==
  /\ pc = "trigger"
  /\ \E io \in DataCommandScripts(SetDevicePropValue, transaction_id + 1) :
       LET x == send_data_command(transaction_id, SetDevicePropValue,
                                  <<PTP_DPC_FUJI_StartRawConversion>>, packH(0), io)
       IN  /\ Do(x)
           /\ IF x.exc # "none" THEN Raise("trigger", x.exc)
              ELSE IF x.code # OK THEN Raise("trigger", "IOError")
              ELSE Goto("wait") /\ UNCHANGED Locals
  /\ UNCHANGED <<args, codec, prof, Usb, Session>>

\* mutant: the handle at the end of the list is taken
last_handle(data) == unpackI(Slice(data, Len(data) - 4, Len(data)))

\* wait_for_result: the handle taken from an enumeration's data
first_handle(data) == unpackI(Slice(data, 4, 8))

\* mutant: the first handle is read whatever the number of handles
poll_decision_ignores_count(data) ==
  IF Len(data) >= 4
    THEN IF Len(Slice(data, 4, 8)) = 4 THEN "download" ELSE "struct.error"
  ELSE "sleep"

\* wait_for_result: what one enumeration's data makes the loop do
\* ("sleep", "download", or "struct.error": the handle is cut short)
poll_decision(data) ==
  IF Len(data) >= 4 /\ unpackI(Slice(data, 0, 4)) # 0
    THEN IF Len(Slice(data, 4, 8)) = 4 THEN "download" ELSE "struct.error"
  ELSE "sleep"

\* wait_for_result: one iteration of the polling loop; the exchange takes d
\* seconds, and the sleep may be interrupted
Poll ==
  /\ pc = "wait"
  /\ elapsed < MaxTimeout
  /\ \E io \in CommandScripts(GetObjectHandles, transaction_id + 1),
        d \in 0..MaxCmdDelay, interrupted \in BOOLEAN :
       LET x == send_command(transaction_id, GetObjectHandles, <<ALL_STORAGE, 0, 0>>, io)
           t == IF elapsed + d + 1 < MaxTimeout THEN elapsed + d + 1 ELSE MaxTimeout
       IN  /\ Do(x)
           /\ IF x.exc # "none" THEN Raise("enumerate", x.exc)
              ELSE IF x.code # OK THEN Raise("enumerate", "IOError")
              ELSE IF poll_decision(x.rdata) = "struct.error"
                THEN Raise("enumerate", "struct.error")
              ELSE IF poll_decision(x.rdata) = "download"
                THEN /\ Goto("get_object")
                     /\ handle' = first_handle(x.rdata)
                     /\ UNCHANGED <<original_profile, modified_profile, jpeg_data, elapsed>>
              ELSE IF interrupted THEN Raise("enumerate", "KeyboardInterrupt")
              ELSE /\ Goto("wait")
                   /\ elapsed' = t
                   /\ UNCHANGED <<original_profile, modified_profile, jpeg_data, handle>>
  /\ UNCHANGED <<args, codec, prof, Usb, Session>>

\* wait_for_result: the loop condition fails
WaitTimeout ==
  /\ pc = "wait"
  /\ elapsed >= MaxTimeout
  /\ UNCHANGED <<args, codec, prof, Usb, Session, transaction_id, sent, last>>
  /\ Raise("enumerate", "TimeoutError")

\* wait_for_result: download the first handle
Download ==
  /\ pc = "get_object"
  /\ \E io \in CommandScripts(GetObject, transaction_id + 1) :
       LET x == send_command(transaction_id, GetObject, <<handle>>, io)
       IN  /\ Do(x)
           /\ IF x.exc # "none" THEN Raise("download", x.exc)
              ELSE IF x.code # OK THEN Raise("download", "IOError")
              ELSE /\ Goto("delete_object")
                   /\ jpeg_data' = x.rdata
                   /\ UNCHANGED <<original_profile, modified_profile, handle, elapsed>>
  /\ UNCHANGED <<args, codec, prof, Usb, Session>>

\* wait_for_result: delete the temporary object; the response code is not read
Delete ==
  /\ pc = "delete_object"
  /\ \E io \in CommandScripts(DeleteObject, transaction_id + 1) :
       LET x == send_command(transaction_id, DeleteObject, <<handle>>, io)
       IN  /\ Do(x)
           /\ IF x.exc # "none" THEN Raise("delete", x.exc)
              ELSE Goto("save") /\ UNCHANGED Locals
  /\ UNCHANGED <<args, codec, prof, Usb, Session>>

\* main: write the output file and return 0
Save ==
  /\ pc = "save"
  /\ UNCHANGED <<args, codec, prof, Usb, Session, transaction_id, sent, last>>
  /\ \E write_ok \in BOOLEAN :
       IF write_ok
         THEN pc' = "finally" /\ ret' = "0" /\ UNCHANGED failure /\ Forget
         ELSE Raise("save", "OSError")

\* mutant: "except Exception" in place of the bare except
close_session_except_exception(tid, io) ==
  LET x == send_command(tid, CloseSession, <<>>, io)
  IN  [x |-> x, exc |-> IF x.exc = "KeyboardInterrupt" THEN x.exc ELSE "none"]

\* close_session: the exchange, and the exception close_session itself raises
close_session(tid, io) ==
  [x |-> send_command(tid, CloseSession, <<>>, io), exc |-> "none"]

\* mutant: a failure of release_interface leaves disconnect as an exception
disconnect_raises_release_error(close_exc, release_ok) ==
  IF close_exc # "none" THEN close_exc
  ELSE IF release_ok THEN "none" ELSE "USBError"

\* the exception disconnect() raises: both of its steps are in a
\* "try: ... except: pass", so none, whatever close_session raised and
\* whether or not release_interface succeeded
disconnect_raises(close_exc, release_ok) ==
  IF close_exc # "none" THEN "none"
  ELSE IF release_ok THEN "none" ELSE "none"

\* disconnect().  Without bulk endpoints the write of the Command cannot
\* succeed (ep_out is None).
disconnect ==
  IF dev # "None"
    THEN \E io \in { k \in CommandScripts(CloseSession, transaction_id + 1) :
                       ~ep_ok => k.w1 # "ok" },
            release_ok \in BOOLEAN :
           LET r == close_session(transaction_id, io)
               e == disconnect_raises(r.exc, release_ok)
           IN  /\ Do(r.x)
               /\ close_result' = IF r.exc = "none" THEN "returned" ELSE r.exc
               /\ interface' = IF release_ok THEN "released" ELSE "release_failed"
               /\ dev' = IF e = "none" THEN "None" ELSE dev
               /\ ret' = IF e = "none" THEN ret ELSE "raised"
    ELSE UNCHANGED <<transaction_id, sent, last, close_result, interface, dev, ret>>

\* the finally clause of main: disconnect()
Disconnect ==
  /\ pc = "finally"
  /\ disconnect
  /\ pc' = "exit"
  /\ UNCHANGED <<failure, args, codec, prof, ep_ok, Locals, Session>>

Next ==
  \/ Connect
  \/ OpenSessionFirst
  \/ OpenSessionClose
  \/ OpenSessionRetry
  \/ SendObjectInfo
  \/ SendObject2
  \/ GetProfile
  \/ BuildProfile
  \/ SetProfile
  \/ TriggerConversion
  \/ Poll
  \/ WaitTimeout
  \/ Download
  \/ Delete
  \/ Save
  \/ Disconnect

Spec == Init /\ [][Next]_vars

\* disconnect() called on the camera object after main has ended: a first
\* and a second time
DisconnectCall ==
  /\ pc \in {"exit", "exit_1"}
  /\ disconnect
  /\ pc' = IF pc = "exit" THEN "exit_1" ELSE "exit_2"
  /\ UNCHANGED <<failure, args, codec, prof, ep_ok, Locals, Session>>

\* main, and then the teardown called again
TeardownSpec == Init /\ [][Next \/ DisconnectCall]_vars

\* wait_for_result is sequential code: while its loop can make a step (poll
\* again, or find the deadline passed), it makes one
FairSpec == Spec /\ WF_vars(Poll) /\ WF_vars(WaitTimeout)

(***************************************************************************)
(* The container codec and the receiving side of the transport on their    *)
(* own: a container is packed, its bytes are unpacked directly, or are     *)
(* delivered by the bulk IN endpoint in chunks and received; the endpoint  *)
(* may also deliver bytes no pack produced.                                *)
(***************************************************************************)
\* containers a caller may construct: every kind, codes that fit and one
\* that does not fit 16 bits, transaction ids and parameters over the whole
\* 32-bit range, zero to six parameters, with and without a payload
Containers ==
  { PTPContainer(t, k, i, ps, d) :
      t \in {COMMAND, DATA, RESPONSE, EVENT},
      k \in {OK, GetObjectHandles, 65536},
      i \in {0, 1, 16909060},
      ps \in {<<>>, <<1>>, <<ALL_STORAGE, 0, 0>>, <<1, 2, 3, 4, 5>>, <<1, 2, 3, 4, 5, 6>>},
      d \in {<<>>, <<7>>, <<1, 0, 0, 0, 9, 0, 0, 0>>} }
  \cup { PTPContainer(DATA, GetObject, 1, <<>>, [i \in 1..n |-> i % 256]) :
           n \in {1, max_chunk_size - 1, max_chunk_size, max_chunk_size + 1,
                  10 * max_chunk_size} }

\* a frame as a camera may put it on the wire: the length it declares, its
\* kind, and the bytes after the header
Frame(declared, kind, body) ==
  packI(declared) \o packH(kind) \o packH(OK) \o packI(1) \o body

\* a Data frame that fills its first transfer, followed by n full transfers
LongReads(declared, n) ==
  <<Chunk(Frame(declared, DATA, [i \in 1..(max_chunk_size - 12) |-> 0]))>>
  \o [k \in 1..n |-> Chunk([i \in 1..max_chunk_size |-> 0])]

\* what the endpoint may deliver for one container read: short, exact,
\* overlong and split frames, frames whose declared length is wrong, and
\* failing reads
WireReads ==
  { <<>>,
    <<Chunk(<<>>)>>,
    <<Chunk(<<12, 0, 0, 0>>)>>,
    <<Chunk(Slice(Frame(12, RESPONSE, <<>>), 0, 11)), Chunk(<<0>>)>>,
    <<Chunk(Frame(12, RESPONSE, <<>>))>>,
    <<Chunk(Frame(16, RESPONSE, <<5, 0, 0, 0>>))>>,
    <<Chunk(Frame(12, RESPONSE, <<5, 0, 0, 0>>))>>,
    <<Chunk(Frame(20, RESPONSE, <<5, 0, 0, 0>>))>>,
    <<Chunk(Frame(16, DATA, <<>>)), Chunk(<<1, 2, 3, 4>>)>>,
    <<Chunk(Frame(16, DATA, <<>>)), Chunk(<<1, 2>>), Chunk(<<3, 4>>)>>,
    <<Chunk(Frame(20, DATA, <<>>)), Chunk(<<1, 2, 3, 4, 5, 6, 7, 8, 9, 10, 11, 12>>)>>,
    <<Chunk(Frame(20, DATA, <<>>)), Chunk(<<1, 2, 3, 4>>)>>,
    <<Chunk(Frame(20, DATA, <<>>)), ReadFails("USBError")>>,
    <<Chunk(Frame(20, DATA, <<>>)), Chunk(<<>>), ReadFails("KeyboardInterrupt")>>,
    <<Chunk(Frame(0, DATA, <<1, 2, 3, 4>>))>>,
    <<Chunk(Frame(-1, RESPONSE, <<>>)), Chunk(<<1, 2, 3, 4>>)>>,
    <<Chunk(Frame(12, EVENT, <<>>))>>,
    <<Chunk(Frame(12, COMMAND, <<>>))>>,
    <<Chunk(Frame(12, 0, <<>>))>>,
    <<ReadFails("USBError")>>,
    <<ReadFails("KeyboardInterrupt")>> }
  \cup { LongReads(MaxTransfers * max_chunk_size, MaxTransfers - 1),
         LongReads((MaxTransfers + 1) * max_chunk_size, MaxTransfers),
         LongReads(-1, MaxTransfers) }

\* the bytes of a frame in transfers of full size, the last one shorter
RECURSIVE Transfers(_)
Transfers(bytes) ==
  IF bytes = <<>> THEN <<>>
  ELSE <<Chunk(Slice(bytes, 0, max_chunk_size))>>
       \o Transfers(Slice(bytes, max_chunk_size, Len(bytes)))

\* the ways the endpoint may cut the bytes of a frame into chunks: full
\* transfers, or a shorter first one
Splits(bytes) ==
  { Transfers(bytes) }
  \cup { <<Chunk(Slice(bytes, 0, k))>> \o Transfers(Slice(bytes, k, Len(bytes))) :
           k \in {n \in {4, 12} : n < Len(bytes)} }

\* Response frames with more than five parameter words, with a remainder
\* of fewer than four bytes, and with a word above 2^31
ResponseFrames ==
  { Frame(12 + Len(body), RESPONSE, body) :
      body \in { <<1, 0, 0, 0, 2, 0, 0, 0, 3, 0, 0, 0, 4, 0, 0, 0, 5, 0, 0, 0,
                   6, 0, 0, 0>>,
                 <<1, 0, 0, 0, 2, 0, 0, 0, 3, 0, 0, 0, 4, 0, 0, 0, 5, 0, 0, 0, 6, 0>>,
                 <<1, 2, 3, 4, 9, 9, 9>>,
                 <<9, 9, 9>>,
                 <<254, 255, 255, 255, 0, 0, 0, 128>> } }

\* the outcomes of the writes of one _send_container of n slices: all
\* succeed, or the k-th fails or is interrupted
WriteScripts(n) ==
  { <<>> }
  \cup { [i \in 1..k |-> IF i = k THEN e ELSE "ok"] :
           k \in 1..n, e \in WriteOutcomes \ {"ok"} }

\* the slices written by a _send_container, as the reads of the other end
AsReads(writes) == [i \in 1..Len(writes) |-> Chunk(writes[i])]

\* the bytes of a list of reads, while they succeed
RECURSIVE Delivered(_)
Delivered(reads) ==
  IF reads = <<>> \/ Head(reads).exc # "none" THEN <<>>
  ELSE Head(reads).bytes \o Delivered(Tail(reads))

CodecInit ==
  /\ pc = "codec"
  /\ args = NoOptions
  /\ prof = NoProfile
  /\ \/ \E c \in Containers : codec = [NoCodec EXCEPT !.stage = "new", !.c = c]
     \/ \E reads \in WireReads \cup { Transfers(f) : f \in ResponseFrames } :
          codec = [NoCodec EXCEPT !.stage = "wire", !.reads = reads]
  /\ Fresh

Workflow == <<pc, ret, failure, args, dev, ep_ok, interface, transaction_id, sent, last,
              Locals, close_result, Session>>

\* container.pack()
PackContainer ==
  /\ codec.stage = "new"
  /\ LET p == pack(codec.c)
     IN  codec' = [codec EXCEPT !.stage = IF p.exc = "none" THEN "packed" ELSE "pack_failed",
                                !.bytes = p.bytes,
                                !.result = [exc |-> p.exc, c |-> NoContainer, data |-> <<>>]]
  /\ UNCHANGED <<Workflow, prof>>

\* _send_container(container), from the packed bytes on
SendContainer ==
  /\ codec.stage = "packed"
  /\ \E outcomes \in WriteScripts((Len(codec.bytes) + max_chunk_size - 1) \div max_chunk_size) :
       LET r == send_container_chunks(codec.bytes, outcomes)
       IN  codec' = [codec EXCEPT !.stage = IF r.exc = "none" THEN "sent" ELSE "send_failed",
                                  !.send = [exc |-> r.exc, writes |-> r.writes,
                                            outcomes |-> outcomes]]
  /\ UNCHANGED <<Workflow, prof>>

\* the bytes of a packed container arrive at the bulk IN endpoint, cut by
\* the endpoint, or slice by slice as a _send_container wrote them
DeliverFrame ==
  /\ \/ /\ codec.stage = "packed"
        /\ \E reads \in Splits(codec.bytes) :
             codec' = [codec EXCEPT !.stage = "wire", !.reads = reads]
     \/ /\ codec.stage = "sent"
        /\ codec' = [codec EXCEPT !.stage = "wire", !.reads = AsReads(codec.send.writes)]
  /\ UNCHANGED <<Workflow, prof>>

\* PTPContainer.unpack(data) on the bytes of a packed container, or on the
\* bytes the endpoint delivered
UnpackFrame ==
  /\ codec.stage \in {"packed", "wire"}
  /\ LET data == IF codec.stage = "packed" THEN codec.bytes ELSE Delivered(codec.reads)
         u == unpack(data)
     IN  codec' = [codec EXCEPT !.stage = "unpacked",
                                !.result = [exc |-> u.exc, c |-> u.c, data |-> data]]
  /\ UNCHANGED <<Workflow, prof>>

\* _recv_container()
ReceiveContainer ==
  /\ codec.stage = "wire"
  /\ codec' = [codec EXCEPT !.stage = "received",
                            !.result = recv_container_chunks(codec.reads)]
  /\ UNCHANGED <<Workflow, prof>>

CodecNext ==
  \/ PackContainer
  \/ SendContainer
  \/ DeliverFrame
  \/ UnpackFrame
  \/ ReceiveContainer

CodecSpec == CodecInit /\ [][CodecNext]_vars

\* the transport on its own and as the workflow's commands use it
TransportSpec == (Init \/ CodecInit) /\ [][Next \/ CodecNext]_vars

(***************************************************************************)
(* _recv_container read by read: codec.result.data is the bytearray        *)
(* "data", codec.nreads the number of reads so far, modulo 2.              *)
(***************************************************************************)
\* what one ep_in.read may deliver as the first chunk: a failure, nothing,
\* or the header of a Data frame with the start of its payload
FirstChunks ==
  { ReadFails("USBError"), ReadFails("KeyboardInterrupt"), Chunk(<<>>) }
  \cup { Chunk(Frame(declared, DATA, [i \in 1..n |-> 0])) :
           declared \in {0, 12, 3 * max_chunk_size, MaxTransfers * max_chunk_size + 1, -1},
           n \in {0, max_chunk_size - 12} }

\* what one later ep_in.read may deliver: a failure, a zero-length
\* transfer, a short one or a full one
MoreChunks ==
  { ReadFails("USBError"), ReadFails("KeyboardInterrupt"), Chunk(<<>>),
    Chunk(<<0, 0, 0, 0>>), Chunk([i \in 1..max_chunk_size |-> 0]) }

RecvInit ==
  /\ pc = "recv"
  /\ args = NoOptions
  /\ prof = NoProfile
  /\ codec = [NoCodec EXCEPT !.stage = "recv_first"]
  /\ Fresh

\* the read of the first chunk and the test of its length
RecvFirst ==
  /\ codec.stage = "recv_first"
  /\ \E first_chunk \in FirstChunks :
       LET data == first_chunk.bytes
       IN  codec' = [codec EXCEPT
             !.nreads = 1,
             !.stage = IF first_chunk.exc # "none" \/ Len(data) < 12 THEN "recv_raised"
                       ELSE "recv_loop",
             !.result = IF first_chunk.exc # "none" THEN recv_raises(first_chunk.exc, <<>>)
                        ELSE IF Len(data) < 12 THEN recv_raises("IOError", data)
                        ELSE [exc |-> "none", c |-> NoContainer, data |-> data]]
  /\ UNCHANGED <<Workflow, prof>>

\* one turn of "while len(data) < total_length"
RecvMore ==
  /\ codec.stage = "recv_loop"
  /\ LessThanWord(Len(codec.result.data), unpackI(Slice(codec.result.data, 0, 4)))
  /\ \E chunk \in MoreChunks :
       LET more == codec.result.data \o chunk.bytes
       IN  codec' = [codec EXCEPT
             !.nreads = 1 - codec.nreads,
             !.stage = IF chunk.exc # "none" \/ Len(more) > RECV_LIMIT THEN "recv_raised"
                       ELSE "recv_loop",
             !.result = IF chunk.exc # "none" THEN recv_raises(chunk.exc, codec.result.data)
                        ELSE IF Len(more) > RECV_LIMIT THEN recv_raises("IOError", more)
                        ELSE [exc |-> "none", c |-> NoContainer, data |-> more]]
  /\ UNCHANGED <<Workflow, prof>>

\* the loop has ended: "return PTPContainer.unpack(bytes(data))"
RecvUnpack ==
  /\ codec.stage = "recv_loop"
  /\ ~LessThanWord(Len(codec.result.data), unpackI(Slice(codec.result.data, 0, 4)))
  /\ LET u == unpack(codec.result.data)
     IN  codec' = [codec EXCEPT
           !.stage = IF u.exc # "none" THEN "recv_raised" ELSE "recv_returned",
           !.result = IF u.exc # "none" THEN recv_raises(u.exc, codec.result.data)
                      ELSE [exc |-> "none", c |-> u.c, data |-> codec.result.data]]
  /\ UNCHANGED <<Workflow, prof>>

RecvNext ==
  \/ RecvFirst
  \/ RecvMore
  \/ RecvUnpack

\* _recv_container runs on: each of its steps is taken when it can be
RecvSpec ==
  RecvInit /\ [][RecvNext]_vars
  /\ WF_vars(RecvFirst) /\ WF_vars(RecvMore) /\ WF_vars(RecvUnpack)

(***************************************************************************)
(* The profile codec on its own: override sets and vendor tags go through  *)
(* validate_params, create_profile_from_camera and parse_profile, tone     *)
(* values through encode_tone_value and decode_tone_value.                 *)
(***************************************************************************)
MaxTone == 5

\* the overrides of the worked example: Classic Chrome, +0.7 EV, H +2, S -1
ExampleOverrides ==
  ("FilmSimulation" :> 11) @@ ("ExposureBias" :> 700) @@ ("HighlightTone" :> 2)
  @@ ("ShadowTone" :> -1)

\* every field overridden, negative values included
FullOverrides ==
  [n \in ParamNames |->
     CASE n = "FilmSimulation" -> 17
       [] n = "ExposureBias" -> -5000
       [] n = "ShadowTone" -> -2
       [] n \in TONE_PARAMS -> -4
       [] n \in {"WBShiftR", "WBShiftB"} -> -9
       [] OTHER -> 1]

\* an override under a name that is not a profile field
UnknownOverrides == ("Bogus" :> 3) @@ ("ShadowTone" :> 4)

OverrideSets ==
  { <<>>, ExampleOverrides, FullOverrides, UnknownOverrides, "Bogus" :> 3 }
  \cup { "FilmSimulation" :> v : v \in {0, 1, 17, 18} }
  \cup { "ExposureBias" :> v : v \in {-5001, -5000, 5000, 5001} }
  \cup { "ShadowTone" :> v : v \in {-3, -2, 4, 5} }
  \cup { n :> v : n \in {"HighlightTone", "Color", "Sharpness"}, v \in {-5, -4, 4, 5} }
  \cup { n :> v : n \in {"NoiseReduction", "Clarity"}, v \in {-MaxTone, MaxTone} }
  \cup { n :> v : n \in {"WBShiftR", "WBColorTemp"}, v \in {-9, 6500} }
  \cup { "Clarity" :> v : v \in {-429496730, 429496730} }

\* vendor tags: the default, the empty one, the longest whose length + 1
\* fits one byte, one longer, and one with a character beyond 16 bits
VendorTags ==
  { DefaultIOPCode, <<>>, [k \in 1..254 |-> 65], [k \in 1..255 |-> 65], <<70, 65536>> }

\* baseline profiles read from the device: none, a standard record of
\* zeros, one of 0xFF bytes, and a shorter device-native record
Baselines ==
  { <<>>, [i \in 1..PROFILE_SIZE_STANDARD |-> 0], [i \in 1..PROFILE_SIZE_STANDARD |-> 255],
    [i \in 1..605 |-> 7] }

\* byte strings handed to parse_profile: lengths on both sides of the
\* long layout's end, filled with one byte or with a pattern
ProfileData ==
  { [i \in 1..n |-> IF b = 1 THEN (i * 37) % 256 ELSE b] :
      n \in {0, 1, 513, 517, 605, 628, 629, 632, 640}, b \in {0, 1, 246, 255} }

ProfileInit ==
  /\ pc = "profile"
  /\ args = NoOptions
  /\ codec = NoCodec
  /\ \/ \E changes \in OverrideSets, baseline \in Baselines :
          prof = [NoProfile EXCEPT !.stage = "new", !.changes = changes,
                                   !.iopcode = DefaultIOPCode, !.baseline = baseline]
     \/ \E data \in ProfileData : prof = [NoProfile EXCEPT !.stage = "data", !.profile = data]
     \/ \E changes \in {<<>>, ExampleOverrides, FullOverrides, UnknownOverrides},
           iopcode \in VendorTags :
          prof = [NoProfile EXCEPT !.stage = "new", !.changes = changes,
                                   !.iopcode = iopcode]
     \/ \E v \in (-MaxTone)..MaxTone : prof = [NoProfile EXCEPT !.stage = "tone", !.v = v]
  /\ Fresh

\* validate_params(...) as main calls it on the changes
ValidateParams ==
  /\ prof.stage = "new"
  /\ LET c == prof.changes
     IN  IF validate_params_raises(Get(c, "FilmSimulation"), Get(c, "ExposureBias"),
                                   Get(c, "HighlightTone"), Get(c, "ShadowTone"),
                                   Get(c, "Color"), Get(c, "Sharpness"))
           THEN prof' = [prof EXCEPT !.stage = "rejected", !.exc = "ValueError",
                                     !.validated = TRUE]
           ELSE prof' = [prof EXCEPT !.stage = "valid", !.validated = TRUE]
  /\ UNCHANGED <<Workflow, codec>>

\* create_profile_from_camera(baseline, changes, iopcode), after a validation
\* that passed or called on its own
CreateProfile ==
  /\ prof.stage \in {"new", "valid"}
  /\ IF iopcode_raises(prof.iopcode) \/ create_profile_raises(prof.changes)
       THEN prof' = [prof EXCEPT !.stage = "create_failed", !.exc = "struct.error"]
       ELSE prof' = [prof EXCEPT !.stage = "created",
                       !.profile = create_profile_from_camera(prof.baseline, prof.changes,
                                                              prof.iopcode)]
  /\ UNCHANGED <<Workflow, codec>>

\* parse_profile(profile)
ParseProfile ==
  /\ prof.stage \in {"created", "data"}
  /\ IF parse_profile_raises(prof.profile)
       THEN prof' = [prof EXCEPT !.stage = "parse_failed", !.exc = "struct.error"]
       ELSE prof' = [prof EXCEPT !.stage = IF prof.stage = "data" THEN "parsed_data"
                                           ELSE "parsed",
                                 !.params = parse_profile(prof.profile)]
  /\ UNCHANGED <<Workflow, codec>>

\* encode_tone_value(v), and the word the record stores for it
EncodeTone ==
  /\ prof.stage = "tone"
  /\ LET e == encode_tone_value(prof.v)
     IN  prof' = [prof EXCEPT !.stage = "encoded", !.encoded = e, !.word = packI(e)]
  /\ UNCHANGED <<Workflow, codec>>

\* decode_tone_value of the stored word, and of the signed value
DecodeTone ==
  /\ prof.stage = "encoded"
  /\ prof' = [prof EXCEPT !.stage = "decoded",
                          !.from_word = decode_tone_value(unpack_from_I(prof.word, 0)),
                          !.from_signed = decode_tone_value(WideOf(prof.encoded))]
  /\ UNCHANGED <<Workflow, codec>>

ProfileNext ==
  \/ ValidateParams
  \/ CreateProfile
  \/ ParseProfile
  \/ EncodeTone
  \/ DecodeTone

ProfileSpec == ProfileInit /\ [][ProfileNext]_vars

(***************************************************************************)
(* Properties.                                                             *)
(***************************************************************************)
IsCommand(e) == e.c.type = COMMAND

\* the Command containers issued so far, in issue order
Commands(log) == SelectSeq(log, IsCommand)

\* a read that returned a container of the given kind
Got(r, kind) == r.exc = "none" /\ r.c.type = kind

\* C1: the Command containers issued on the connection carry the
\* transaction ids 1, 2, ..., k in issue order, commands that failed
\* included, and the counter equals the number of commands issued: nothing
\* resets it, decrements it or advances it without a command.
C1_TransactionIds ==
  LET cmds == Commands(sent)
  IN  /\ transaction_id = Len(cmds)
      /\ \A i \in 1..Len(cmds) : cmds[i].c.transaction_id = i

\* a run in which a command's write failed and the teardown CloseSession
\* followed it
C1_Witness ==
  /\ pc = "exit"
  /\ close_result = "returned"
  /\ Len(Commands(sent)) >= 4
  /\ \E i \in 1..(Len(sent) - 1) : sent[i].w # "ok"

\* C2: once open_session has ended after a first OpenSession answered
\* 'session already open', the first three commands of the connection are
\* OpenSession, CloseSession, OpenSession, no other OpenSession is ever
\* issued, and open_session returned True exactly when the retry returned
\* the code OK.
C2_AlreadyOpenRecovery ==
  (open_first = SessionAlreadyOpen /\ open_result # "") =>
    LET cmds == Commands(sent)
    IN  /\ Len(cmds) >= 3
        /\ cmds[1].c.code = OpenSession
        /\ cmds[2].c.code = CloseSession
        /\ cmds[3].c.code = OpenSession
        /\ Cardinality({ i \in 1..Len(cmds) : cmds[i].c.code = OpenSession }) = 2
        /\ transaction_id = 3 =>
             (open_result = "True" <=> (last.exc = "none" /\ last.code = OK))

\* the retry is answered 'session already open' too: open_session fails
C2_Witness ==
  /\ open_first = SessionAlreadyOpen
  /\ open_result = "False"
  /\ transaction_id = 3
  /\ last.exc = "none"
  /\ last.code = SessionAlreadyOpen

\* C3: close_session returns normally whatever its CloseSession command
\* did: it is never recorded as having raised.
C3_CloseSessionNeverThrows ==
  /\ close_result \in {"not_called", "returned"}
  /\ (pc = "exit" /\ last.opcode = CloseSession /\ open_result = "True")
       => close_result = "returned"

\* close_session returned although its command was interrupted
C3_Witness ==
  /\ close_result = "returned"
  /\ last.opcode = CloseSession
  /\ last.exc = "KeyboardInterrupt"

\* C4: a send_command whose Command was written reads one container; after
\* a Data container it reads exactly one more, and returns the Data
\* payload with the code of that second container only if it is a
\* Response; after a Response it reads nothing more and returns an empty
\* payload; for every other container (first of another kind, or Data
\* followed by a non-Response) it raises IOError.
C4_SendCommandShape ==
  (last.shape = "send_command" /\ last.writes[1].w = "ok") =>
    LET rd == last.reads
    IN  /\ Len(rd) \in {1, 2}
        /\ Got(rd[1], DATA) =>
             /\ Len(rd) = 2
             /\ Got(rd[2], RESPONSE) =>
                  /\ last.exc = "none"
                  /\ last.rdata = rd[1].c.data
                  /\ last.code = rd[2].c.code
                  /\ last.rparams = rd[2].c.params
             /\ (rd[2].exc = "none" /\ rd[2].c.type # RESPONSE) => last.exc = "IOError"
        /\ Got(rd[1], RESPONSE) =>
             /\ Len(rd) = 1
             /\ last.exc = "none"
             /\ last.rdata = <<>>
             /\ last.code = rd[1].c.code
        /\ (rd[1].exc = "none" /\ rd[1].c.type \notin {DATA, RESPONSE}) =>
             /\ Len(rd) = 1
             /\ last.exc = "IOError"
        /\ last.exc = "none" => Got(rd[Len(rd)], RESPONSE)

\* a Data container followed by an Event container: a protocol error
C4_Witness ==
  /\ last.shape = "send_command"
  /\ Len(last.reads) = 2
  /\ Got(last.reads[1], DATA)
  /\ Got(last.reads[2], EVENT)
  /\ last.exc = "IOError"

\* C5: send_data_command hands the transport one Command container, then
\* (if that write succeeded) one Data container with the caller's payload,
\* the Command's transaction id and its operation code, then (if that
\* write succeeded) reads exactly one container; it returns that
\* container's code and parameters if it is a Response and raises IOError
\* if it is a container of another kind.
C5_SendDataCommandShape ==
  last.shape = "send_data_command" =>
    LET wr == last.writes
        rd == last.reads
    IN  /\ Len(wr) \in {1, 2}
        /\ wr[1].c.type = COMMAND
        /\ wr[1].c.code = last.opcode
        /\ wr[1].c.params = last.params
        /\ Len(wr) = 2 <=> wr[1].w = "ok"
        /\ Len(wr) = 2 =>
             /\ wr[2].c.type = DATA
             /\ wr[2].c.data = last.data_in
             /\ wr[2].c.transaction_id = wr[1].c.transaction_id
             /\ wr[2].c.code = wr[1].c.code
             /\ wr[2].c.params = <<>>
        /\ Len(rd) = (IF Len(wr) = 2 /\ wr[2].w = "ok" THEN 1 ELSE 0)
        /\ Len(rd) = 1 =>
             /\ Got(rd[1], RESPONSE) =>
                  /\ last.exc = "none"
                  /\ last.code = rd[1].c.code
                  /\ last.rparams = rd[1].c.params
             /\ (rd[1].exc = "none" /\ rd[1].c.type # RESPONSE) => last.exc = "IOError"
        /\ last.exc = "none" => (Len(rd) = 1 /\ Got(rd[1], RESPONSE))

\* the camera answers the outbound data with a Data container
C5_Witness ==
  /\ last.shape = "send_data_command"
  /\ Len(last.writes) = 2
  /\ Len(last.reads) = 1
  /\ Got(last.reads[1], DATA)
  /\ last.exc = "IOError"

\* the command ended with its terminal Response container received
TerminalResponse(x) == Len(x.reads) > 0 /\ Got(x.reads[Len(x.reads)], RESPONSE)

\* C6 as stated: no Command is issued before the terminal Response of the
\* previous Command was received, failing runs and teardown included.
C6_ResponseBeforeNextCommand ==
  [][sent' # sent => (last.shape = "none" \/ TerminalResponse(last))]_vars

\* C6 as amended: a Command is issued only when the previous command has
\* ended, either with its terminal Response received or by raising an error;
\* and the Command issued after one that raised is the retry OpenSession of
\* open_session's recovery or the teardown CloseSession.
C6_OneCommandAtATime ==
  [][sent' # sent =>
       \/ last.shape = "none"
       \/ TerminalResponse(last)
       \/ /\ last.exc # "none"
          /\ \/ pc = "open_retry" /\ last.opcode = CloseSession /\ last'.opcode = OpenSession
             \/ pc = "finally" /\ last'.opcode = CloseSession]_vars

\* the download was interrupted, so its Response never came, and the
\* teardown CloseSession was issued all the same
C6_Witness ==
  /\ pc = "exit"
  /\ failure.step = "download"
  /\ failure.exc = "KeyboardInterrupt"
  /\ last.opcode = CloseSession
  /\ Len(sent) = failure.at + 1

\* the entry of the log that carries the Data container of transaction t
DataOf(log, t) ==
  { i \in 1..Len(log) : log[i].c.type = DATA /\ log[i].c.transaction_id = t }

\* C7: a run that returns 0 and whose OpenSession succeeded at once has
\* issued exactly: OpenSession, 0x900C, 0x900D, GetDevicePropValue(0xD185),
\* SetDevicePropValue(0xD185), SetDevicePropValue(0xD183) with the value
\* zero, one or more GetObjectHandles, GetObject, DeleteObject of the same
\* handle, CloseSession.
C7_SuccessfulRunOrder ==
  (pc = "exit" /\ ret = "0" /\ open_first = OK) =>
    LET cmds == Commands(sent)
        n == Len(cmds)
    IN  /\ n >= 10
        /\ cmds[1].c.code = OpenSession
        /\ cmds[2].c.code = FUJI_SendObjectInfo
        /\ cmds[3].c.code = FUJI_SendObject2
        /\ cmds[4].c.code = GetDevicePropValue
        /\ cmds[4].c.params = <<53637>>
        /\ cmds[5].c.code = SetDevicePropValue
        /\ cmds[5].c.params = <<53637>>
        /\ cmds[6].c.code = SetDevicePropValue
        /\ cmds[6].c.params = <<53635>>
        /\ \A i \in DataOf(sent, 6) : sent[i].c.data = <<0, 0>>
        /\ DataOf(sent, 6) # {}
        /\ \A i \in 7..(n - 3) : cmds[i].c.code = GetObjectHandles
        /\ cmds[n - 2].c.code = GetObject
        /\ cmds[n - 1].c.code = DeleteObject
        /\ cmds[n - 1].c.params = cmds[n - 2].c.params
        /\ cmds[n].c.code = CloseSession
        /\ \A i \in 1..Len(sent) : sent[i].w = "ok" \/ i = Len(sent)

\* a successful run that polled twice
C7_Witness ==
  /\ pc = "exit"
  /\ ret = "0"
  /\ open_first = OK
  /\ Len(Commands(sent)) = 11

\* a workflow command that raised or was answered with a code other than OK
FailedStep(x) ==
  /\ x.opcode \in {FUJI_SendObjectInfo, FUJI_SendObject2, GetDevicePropValue,
                   SetDevicePropValue, GetObjectHandles, GetObject}
  /\ x.exc # "none" \/ x.code # OK

\* C8: after a workflow step has failed, the only container handed to the
\* transport is the Command of the teardown CloseSession, once.
C8_NoCommandAfterFailure ==
  /\ [](failure.step # "none" =>
          /\ Len(sent) <= failure.at + 1
          /\ Len(sent) = failure.at + 1 =>
               (sent[Len(sent)].c.type = COMMAND /\ sent[Len(sent)].c.code = CloseSession))
  /\ [][(sent' # sent /\ (FailedStep(last) \/ failure.step # "none")) =>
          /\ pc = "finally"
          /\ pc' = "exit"
          /\ Len(sent') = Len(sent) + 1
          /\ last'.opcode = CloseSession]_vars

\* GetDevicePropValue was answered with an error code; only the teardown
\* CloseSession followed
C8_Witness ==
  /\ pc = "exit"
  /\ failure.step = "get_profile"
  /\ failure.exc = "IOError"
  /\ Len(sent) = failure.at + 1
  /\ last.opcode = CloseSession

\* C9 as stated: whichever step failed, open session included, close_session
\* has run when the workflow ends.
C9_CloseSessionAlwaysRuns ==
  (pc = "exit" /\ (failure.step # "none" \/ open_result \in {"False", "raised"}))
    => close_result = "returned"

\* C10 as stated: when the workflow ends after connect() claimed the
\* interface, the release of the interface was attempted and dev is None.
C10_InterfaceReleased ==
  (pc = "exit" /\ interface # "unclaimed")
    => (interface \in {"released", "release_failed"} /\ dev = "None")

\* number of Command containers with operation code op in a log
CountOp(log, op) ==
  Len(SelectSeq(log, LAMBDA e : e.c.type = COMMAND /\ e.c.code = op))

\* C11: a run that ends with a validation error (an out-of-range parameter)
\* made no USB connection and sent no Command container.
C11_ValidationBeforeDevice ==
  failure.step = "validate"
    => (sent = <<>> /\ interface = "unclaimed" /\ dev = "None" /\ open_result = "")

\* an enumeration's data that reports no handle
NoHandles(data) == Len(data) < 4 \/ unpackI(Slice(data, 0, 4)) = 0

\* C12: while every GetObjectHandles enumeration returns OK with zero handles
\* (and the user does not interrupt the wait), wait_for_result polls at most
\* "timeout" times, always leaves its loop, and leaves it by raising
\* TimeoutError (not the IOError of a transport failure) without having issued
\* GetObject or DeleteObject.
C12_PollingTimeout ==
  /\ [](pc = "wait" => CountOp(sent, GetObjectHandles) <= elapsed)
  /\ [][(/\ pc = "wait"
         /\ pc' # "wait"
         /\ last'.opcode = GetObjectHandles
         /\ last'.exc = "none"
         /\ last'.code = OK
         /\ NoHandles(last'.rdata)
         /\ failure'.exc # "KeyboardInterrupt")
        => (/\ pc' = "finally"
            /\ ret' = "1"
            /\ failure' = [step |-> "enumerate", exc |-> "TimeoutError", at |-> Len(sent)]
            /\ sent' = sent
            /\ CountOp(sent', GetObjectHandles) \in 1..MaxTimeout
            /\ CountOp(sent', GetObject) = 0
            /\ CountOp(sent', DeleteObject) = 0)]_vars
  /\ (pc = "wait") ~> (pc # "wait")

\* the wait timed out after as many empty enumerations as the timeout allows
C12_Witness ==
  /\ failure.exc = "TimeoutError"
  /\ CountOp(sent, GetObjectHandles) = MaxTimeout
  /\ last.opcode = GetObjectHandles
  /\ last.rdata = <<0, 0, 0, 0>>

C14_NoErrorSwallowed ==
  [][(/\ sent' # sent
      /\ pc # "finally"
      /\ last'.exc # "none" \/ last'.code # OK
      /\ ~(pc = "open_session" /\ last'.exc = "none" /\ last'.code = SessionAlreadyOpen))
     => ret' \in {"1", "raised"}]_vars

\* a container the wire format can carry as it is
ValidContainer(c) ==
  /\ c.type \in {COMMAND, DATA, RESPONSE, EVENT}
  /\ c.code \in 0..65535
  /\ Len(c.params) <= 5
  /\ c.params # <<>> => c.type \in {COMMAND, RESPONSE}
  /\ c.data # <<>> => c.type = DATA

\* the bytes pack produced were handed to unpack
Decoded == codec.stage = "unpacked" /\ codec.bytes # <<>> /\ codec.result.data = codec.bytes

C16_LengthField ==
  codec.bytes # <<>>
    => /\ Len(codec.bytes) >= 12
       /\ unpackI(Slice(codec.bytes, 0, 4)) = 12 + 4 * Len(codec.c.params) + Len(codec.c.data)
       /\ unpackI(Slice(codec.bytes, 0, 4)) = Len(codec.bytes)

\* C17: pack produces no bytes for a container with more than five
\* parameters.
C17_TooManyParamsRejected ==
  Len(codec.c.params) > 5 => (codec.bytes = <<>> /\ codec.stage \in {"new", "pack_failed"})

\* C18: pack produces no bytes for a Data container that has parameters.
C18_DataWithParamsRejected ==
  (codec.c.type = DATA /\ codec.c.params # <<>>)
    => (codec.bytes = <<>> /\ codec.stage \in {"new", "pack_failed"})

\* C19: with fewer than 12 bytes, unpack raises (ValueError) and
\* _recv_container, whose first chunk is that short, raises (IOError); neither
\* returns a container.
C19_ShortFrameRejected ==
  /\ (codec.stage = "unpacked" /\ Len(codec.result.data) < 12)
       => (codec.result.exc = "ValueError" /\ codec.result.c = NoContainer)
  /\ (/\ codec.stage = "received"
      /\ codec.reads # <<>>
      /\ codec.reads[1].exc = "none"
      /\ Len(codec.reads[1].bytes) < 12)
       => (codec.result.exc = "IOError" /\ codec.result.c = NoContainer)

\* a first chunk of 11 bytes was read, and the rest was not waited for
C19_Witness ==
  /\ codec.stage = "received"
  /\ Len(codec.reads) = 2
  /\ Len(codec.reads[1].bytes) = 11
  /\ codec.result.exc = "IOError"
  /\ codec.result.data = codec.reads[1].bytes

\* C20: a frame is returned as a container, by unpack or by _recv_container,
\* only if the length it declares is the number of bytes handed to unpack.
C20_DeclaredLengthChecked ==
  (codec.stage \in {"unpacked", "received"} /\ codec.result.exc = "none")
    => unpackI(Slice(codec.result.data, 0, 4)) = Len(codec.result.data)

\* C21: unpack returns no container for a frame whose kind field is Command
\* or is none of Command, Data, Response, Event.
C21_UnreceivableKindRejected ==
  (/\ codec.stage = "unpacked"
   /\ Len(codec.result.data) >= 12
   /\ unpackH(Slice(codec.result.data, 4, 6)) \notin {DATA, RESPONSE, EVENT})
    => (codec.result.exc # "none" /\ codec.result.c = NoContainer)

\* the bytes of a list of slices, in order
RECURSIVE Concat(_)
Concat(slices) == IF slices = <<>> THEN <<>> ELSE Head(slices) \o Concat(Tail(slices))

\* every write of a _send_container succeeded
SentWhole == codec.send.exc = "none" /\ codec.send.writes # <<>>

\* C22: _send_container writes a frame of L bytes in ceil(L/M) slices, all
\* of M bytes but the last, which has at most M, and the slices in order are
\* the frame; _recv_container, reading those slices, returns the Data
\* container that was sent (its payload of N = L - 12 bytes) and has consumed
\* exactly the frame.
C22_ChunkReassembly ==
  /\ SentWhole =>
       LET w == codec.send.writes
           n == Len(w)
       IN  /\ n = (Len(codec.bytes) + max_chunk_size - 1) \div max_chunk_size
           /\ \A i \in 1..(n - 1) : Len(w[i]) = max_chunk_size
           /\ Len(w[n]) \in 1..max_chunk_size
           /\ Concat(w) = codec.bytes
  /\ (/\ codec.stage = "received"
      /\ SentWhole
      /\ codec.c.type = DATA
      /\ ValidContainer(codec.c))
       => /\ codec.result.exc = "none"
          /\ codec.result.c = codec.c
          /\ codec.result.data = codec.bytes

\* a payload of ten full slices went out in eleven writes and came back
C22_Witness ==
  /\ codec.stage = "received"
  /\ Len(codec.c.data) = 10 * max_chunk_size
  /\ Len(codec.send.writes) = 11
  /\ codec.result.c.data = codec.c.data

\* C23: when a write of _send_container fails, the failing slice is the
\* last one written and _send_container raises IOError; a send_command or
\* send_data_command one of whose containers failed to be written sends
\* nothing more, reads nothing, raises IOError and returns no result.
C23_WriteFailureAborts ==
  /\ codec.stage = "send_failed" =>
       LET k == Len(codec.send.outcomes)
       IN  /\ Len(codec.send.writes) = k
           /\ \A i \in 1..k :
                codec.send.writes[i]
                  = Slice(codec.bytes, (i - 1) * max_chunk_size, i * max_chunk_size)
           /\ codec.send.outcomes[k] = "USBError" => codec.send.exc = "IOError"
           /\ codec.result.c = NoContainer
  /\ \A i \in 1..Len(last.writes) :
       last.writes[i].w = "USBError"
         => /\ i = Len(last.writes)
            /\ last.reads = <<>>
            /\ last.exc = "IOError"
            /\ last.code = 0 /\ last.rparams = <<>> /\ last.rdata = <<>>

\* the second of several slices failed
C23_Witness ==
  /\ codec.stage = "send_failed"
  /\ Len(codec.bytes) > 2 * max_chunk_size
  /\ codec.send.outcomes = <<"ok", "USBError">>
  /\ Len(codec.send.writes) = 2

\* C24: _recv_container never returns a container of more bytes than its
\* limit: once the bytes accumulated exceed the limit it raises IOError.
C24_ReceiveLimit ==
  codec.stage = "received" =>
    /\ Len(codec.result.data) > MaxTransfers * max_chunk_size
         => (codec.result.exc = "IOError" /\ codec.result.c = NoContainer)
    /\ Len(codec.result.data) <= (MaxTransfers + 1) * max_chunk_size

\* a frame declaring one transfer more than the limit was refused once the
\* limit was passed
C24_Witness ==
  /\ codec.stage = "received"
  /\ Len(codec.result.data) = (MaxTransfers + 1) * max_chunk_size
  /\ unpackI(Slice(codec.result.data, 0, 4)) = (MaxTransfers + 1) * max_chunk_size
  /\ codec.result.exc = "IOError"

\* the documented legal range of a field, where there is one
LegalRange(n) ==
  CASE n = "FilmSimulation" -> 1..17
    [] n = "ExposureBias" -> (-5000)..5000
    [] n = "ShadowTone" -> (-2)..4
    [] n \in {"HighlightTone", "Color", "Sharpness", "NoiseReduction"} -> (-4)..4
    [] n = "Clarity" -> (-5)..5
    [] OTHER -> (-32768)..32767

\* an override set restricted to the legal ranges
Legal(changes) == \A n \in DOMAIN changes : changes[n] \in LegalRange(n)

\* the logical value of a field: the override if given, the default otherwise
Logical(changes, n) == IF n \in DOMAIN changes THEN changes[n] ELSE default_params[n]

\* C25: for an override set restricted to the legal ranges and any vendor
\* tag, parsing the created profile returns, for each of the 29 fields, the
\* override if one was given and the documented default otherwise.
C25_ProfileRoundTrip ==
  (prof.stage = "parsed" /\ Legal(prof.changes)) =>
     /\ DOMAIN prof.params = ParamNames
     /\ \A n \in ParamNames : prof.params[n] = Logical(prof.changes, n)

C25_Witness ==
  /\ prof.stage = "parsed"
  /\ prof.changes = FullOverrides
  /\ Len(prof.iopcode) = 254
  /\ prof.params["ShadowTone"] = -2
  /\ prof.params["WBShiftR"] = -9

\* C26: for every tone value v of the legal ranges, decode_tone_value gives
\* v back from the 32-bit two's-complement word of encode_tone_value(v) =
\* v * 10, and from the signed value v * 10 as well.
C26_ToneRoundTrip ==
  prof.stage = "decoded" =>
     /\ prof.encoded = prof.v * 10
     /\ prof.word = <<(prof.v * 10) % 256, ((prof.v * 10) \div 256) % 256,
                      ((prof.v * 10) \div 65536) % 256,
                      ((prof.v * 10) \div 16777216) % 256>>
     /\ prof.from_word = prof.v
     /\ prof.from_signed = prof.v

C26_Witness ==
  /\ prof.stage = "decoded"
  /\ prof.v = -4
  /\ prof.word = <<216, 255, 255, 255>>
  /\ prof.from_word = -4

\* the four bytes, least significant first, of n mod 2^32
WordBytes(n) ==
  <<n % 256, (n \div 256) % 256, (n \div 65536) % 256, (n \div 16777216) % 256>>

\* the four bytes of field i (0-based) of a profile
FieldBytes(profile, i) ==
  [k \in 1..4 |-> profile[PROFILE_PARAMS_OFFSET + 4 * i + k]]

C28_FixedLayout ==
  prof.stage = "created" =>
     LET tag == prof.iopcode
         end == 5 + 2 * Len(tag)
     IN  /\ Len(prof.profile) = 632
         /\ end <= 513
         /\ prof.profile[1] = 29 /\ prof.profile[2] = 0
         /\ prof.profile[3] = Len(tag) + 1
         /\ \A k \in 1..Len(tag) :
               prof.profile[2 + 2 * k] + 256 * prof.profile[3 + 2 * k] = tag[k]
         /\ \A o \in (end - 2)..512 : prof.profile[o + 1] = 0

C28_Witness ==
  /\ prof.stage = "created"
  /\ prof.changes = UnknownOverrides
  /\ Len(prof.iopcode) = 254
  /\ Len(prof.profile) = 632
  /\ prof.profile[510] = 65

\* some validated value lies outside its documented range
OutOfRange(changes) ==
  \E n \in DOMAIN changes \cap {"FilmSimulation", "ExposureBias", "HighlightTone",
                                "ShadowTone", "Color", "Sharpness"} :
     changes[n] \notin LegalRange(n)

C30_OpenSessionAttempts ==
  /\ []((open_result = "False" /\ open_first \notin {OK, SessionAlreadyOpen}) =>
          /\ Len(sent) = 1
          /\ sent[1].c.type = COMMAND /\ sent[1].c.code = OpenSession
          /\ transaction_id = 1)
  /\ [](CountOp(sent, OpenSession) <= 2)
  /\ [][pc = "open_close" =>
          /\ CountOp(sent', CloseSession) = 1
          /\ pc' = "open_retry" /\ open_result' = ""]_vars
  /\ [][pc = "open_retry" =>
          /\ CountOp(sent', OpenSession) = 2
          /\ sent'[Len(sent')].c.code = OpenSession
          /\ open_result' # ""]_vars

\* the CloseSession of the recovery could not be written, and the retry
\* was sent all the same
C30_Witness ==
  /\ open_first = SessionAlreadyOpen
  /\ open_result = "True"
  /\ Len(sent) >= 3
  /\ sent[2].c.code = CloseSession /\ sent[2].w = "USBError"
  /\ sent[3].c.code = OpenSession

\* the 32-bit little-endian words of a byte string, in order, at most n of
\* them; a word of 2^31 or more is written as its two's-complement value
RECURSIVE WordsOf(_, _)
WordsOf(bytes, n) ==
  IF n = 0 \/ Len(bytes) < 4 THEN <<>>
  ELSE <<bytes[1] + 256 * bytes[2] + 65536 * bytes[3]
         + 16777216 * (IF bytes[4] > 127 THEN bytes[4] - 256 ELSE bytes[4])>>
       \o WordsOf(SubSeq(bytes, 5, Len(bytes)), n - 1)

\* C31: unpack reads a Response frame as the 32-bit little-endian words
\* that follow the 12-byte header, in order and at most five, with an empty
\* payload, and a Data frame as no parameters and every byte after the
\* header as payload; words beyond the fifth and a remainder of fewer than
\* four bytes appear neither as parameters nor as payload.
C31_UnpackByKind ==
  (codec.stage = "unpacked" /\ Len(codec.result.data) >= 12) =>
     LET data == codec.result.data
         kind == data[5] + 256 * data[6]
         rest == SubSeq(data, 13, Len(data))
         c == codec.result.c
     IN  /\ codec.result.exc = "none"
         /\ kind = RESPONSE => (c.params = WordsOf(rest, 5) /\ c.data = <<>>)
         /\ kind = DATA => (c.params = <<>> /\ c.data = rest)

\* six words follow the header of a Response
C31_Witness ==
  /\ codec.stage = "unpacked"
  /\ Len(codec.result.data) = 36
  /\ codec.result.c.type = RESPONSE
  /\ codec.result.c.params = <<1, 2, 3, 4, 5>>
  /\ codec.result.c.data = <<>>

\* C32: send_command and send_data_command return a result only when every
\* Data and Response container they consumed carries the transaction id of
\* the Command they sent.
C32_TransactionIdCorrelated ==
  (last.shape # "none" /\ last.exc = "none") =>
     \A i \in 1..Len(last.reads) : last.reads[i].c.transaction_id = last.counter

\* the word of field i (0-based) of a byte string, sign-extended from 32 bits
SignedField(data, i) ==
  LET o == 513 + 4 * i
  IN  data[o + 1] + 256 * data[o + 2] + 65536 * data[o + 3]
      + 16777216 * (IF data[o + 4] > 127 THEN data[o + 4] - 256 ELSE data[o + 4])

\* C33: parse_profile raises for no input; an input of fewer than 629 bytes
\* gives the map of the short-layout fallback, with no field of the
\* standard layout, and an input of 629 bytes or more gives all 29 names,
\* each the sign-extended word of its field, divided by ten (rounding down)
\* for the six tone fields.
C33_ParseNeverRaises ==
  /\ prof.stage # "parse_failed"
  /\ prof.stage \in {"parsed", "parsed_data"} =>
       IF Len(prof.profile) < 629
         THEN DOMAIN prof.params = {}
         ELSE /\ DOMAIN prof.params = ParamNames
              /\ \A i \in 0..28 :
                    LET n == INDEX_TO_PARAM[i + 1]
                        w == SignedField(prof.profile, i)
                    IN  prof.params[n]
                          = IF n \in {"HighlightTone", "ShadowTone", "Color", "Sharpness",
                                      "NoiseReduction", "Clarity"}
                              THEN w \div 10 ELSE w

\* a record of exactly 629 bytes of 0xF6 was parsed
C33_Witness ==
  /\ prof.stage = "parsed_data"
  /\ Len(prof.profile) = 629
  /\ prof.profile[629] = 246
  /\ prof.params["FilmSimulation"] = -151587082
  /\ prof.params["ShadowTone"] = -15158709

C34_RecvTerminates == <>(codec.stage \in {"recv_returned", "recv_raised"})

\* C36: a disconnect() with a device held hands one CloseSession to the
\* transport and attempts the release of the interface, whatever the
\* CloseSession did; it never raises and leaves dev = None; a disconnect()
\* with no device held sends nothing and leaves the interface as it is.
C36_DisconnectBestEffort ==
  [][(pc \in {"finally", "exit", "exit_1"} /\ pc' # pc) =>
       /\ dev' = "None"
       /\ ret' = ret
       /\ IF dev # "None"
            THEN /\ Len(sent') = Len(sent) + 1
                 /\ sent'[Len(sent')].c.type = COMMAND
                 /\ sent'[Len(sent')].c.code = CloseSession
                 /\ interface' \in {"released", "release_failed"}
            ELSE sent' = sent /\ interface' = interface /\ transaction_id' = transaction_id]_vars

\* after a connect() that found no bulk endpoints: the first disconnect()
\* could not write its CloseSession and could not release the interface,
\* the second one did nothing
C36_Witness ==
  /\ pc = "exit_2"
  /\ ~ep_ok
  /\ dev = "None"
  /\ Len(sent) = 1
  /\ sent[1].c.code = CloseSession /\ sent[1].w = "USBError"
  /\ interface = "release_failed"
  /\ ret = "1"

\* the Command containers a step hands to the transport
NewCommands == { i \in (Len(sent) + 1)..Len(sent') : sent'[i].c.type = COMMAND }

\* C37: the session goes Closed, Open, Closed: open_session reports success
\* only on an OpenSession answered OK; a Command other than OpenSession and
\* the CloseSession of open_session's recovery is sent only after that; and
\* once the teardown CloseSession has been issued no Command follows.
C37_SessionStateMachine ==
  /\ [][(open_result' = "True" /\ open_result # "True") =>
          (last'.opcode = OpenSession /\ last'.exc = "none" /\ last'.code = OK)]_vars
  /\ [][\A i \in NewCommands :
          \/ sent'[i].c.code = OpenSession
          \/ sent'[i].c.code = CloseSession /\ pc = "open_close"
          \/ open_result = "True"]_vars
  /\ [][close_result # "not_called" => sent' = sent]_vars
  /\ [](close_result # "not_called" =>
          (open_result = "True" /\ sent[Len(sent)].c.code = CloseSession))

\* a run through the recovery, the whole workflow and the teardown
C37_Witness ==
  /\ pc = "exit"
  /\ ret = "0"
  /\ open_first = SessionAlreadyOpen
  /\ open_result = "True"
  /\ close_result = "returned"
  /\ CountOp(sent, CloseSession) = 2
  /\ CountOp(sent, GetObject) = 1

=============================================================================
